---- MODULE Spec2Model ----
(***************************************************************************)
(* A model of the naming server of the distributed file system:            *)
(*   - the FIFO readers-writers mutex (naming/lib/FIFORWMutex.go),         *)
(*   - the namespace tree with path locking and the root's lock tables     *)
(*     (naming/lib Directory),                                             *)
(*   - the client handlers and the storage commands                        *)
(*     (naming/lib/Handlers.go, naming/lib/Commands.go).                   *)
(***************************************************************************)
EXTENDS Integers, Sequences, FiniteSets, TLC

\* ------------------------------------------------------------------ bounds
\* Goroutines that use the stand-alone mutex of SpecMutex.
NClients == 3

Clients == 1..NClients

\* Request goroutines of the naming server (one client connection each).
NProcs == 2

Procs == 1..NProcs

\* Storage servers that may register.
NServers == 2

Servers == 1..NServers

\* Nodes (directories and files) ever allocated, the root included.
MaxNodes == 4

\* Requests started in one run of Spec.
MaxOps == 5

\* /register and /lock requests started in one run of SpecLock.
MaxLockOps == 4

\* the read threshold of the replication ("if file.rCount >= 20")
ReplicationThreshold == 20

\* ------------------------------------------------------------------ helpers
Range(s) == {s[i] : i \in 1..Len(s)}

RemoveAt(s, i) == SubSeq(s, 1, i - 1) \o SubSeq(s, i + 1, Len(s))

RECURSIVE Without(_, _)
Without(s, x) ==
    IF s = <<>> THEN <<>>
    ELSE IF Head(s) = x THEN Without(Tail(s), x)
    ELSE <<Head(s)>> \o Without(Tail(s), x)

\* the entries of s that are not of goroutine p
RECURSIVE DropWho(_, _)
DropWho(s, p) ==
    IF s = <<>> THEN <<>>
    ELSE IF Head(s).who = p THEN DropWho(Tail(s), p)
    ELSE <<Head(s)>> \o DropWho(Tail(s), p)

\* path a is path b or an ancestor of it
IsPrefix(a, b) == Len(a) <= Len(b) /\ SubSeq(b, 1, Len(a)) = a

\* ------------------------------------------------------- FIFORWMutex (pure)
\* Queue: the circular buffer is a FIFO; it is modelled by a sequence.
NewQueue == <<>>

Enqueue(q, elem) == Append(q, elem)

Peek(q) == Head(q)

Dequeue(q) == Tail(q)

Empty(q) == q = <<>>

\* lockRequest: `who` stands for the requester's private `granted` channel.
lockRequest(who, readonly) == [who |-> who, readonly |-> readonly]

\* The scheduler's local state; alive is FALSE once the loop has left on quit.
NewFIFORWMutex == [queue |-> NewQueue, nReading |-> 0, writing |-> FALSE, alive |-> TRUE]

\* Result of one scheduler event: the new state and the requesters that were
\* sent on their granted channel, in order.
Ev(m, granted) == [m |-> m, granted |-> granted]

\* mutant: a reader is admitted whenever no writer holds, queue or not
SchedRLockNoQueueCheck(m, who) ==
    IF ~m.writing
    THEN Ev([m EXCEPT !.nReading = @ + 1], <<who>>)
    ELSE Ev([m EXCEPT !.queue = Enqueue(@, lockRequest(who, TRUE))], <<>>)

\* case granted := <-lock.rLock
SchedRLock(m, who) ==
    IF Empty(m.queue) /\ ~m.writing
    THEN Ev([m EXCEPT !.nReading = @ + 1], <<who>>)
    ELSE Ev([m EXCEPT !.queue = Enqueue(@, lockRequest(who, TRUE))], <<>>)

\* mutant: a writer is admitted without looking at the reader count
SchedWLockNoReaderCheck(m, who) ==
    IF Empty(m.queue) /\ ~m.writing
    THEN Ev([m EXCEPT !.writing = TRUE], <<who>>)
    ELSE Ev([m EXCEPT !.queue = Enqueue(@, lockRequest(who, FALSE))], <<>>)

\* case granted := <-lock.wLock
SchedWLock(m, who) ==
    IF Empty(m.queue) /\ m.nReading = 0 /\ ~m.writing
    THEN Ev([m EXCEPT !.writing = TRUE], <<who>>)
    ELSE Ev([m EXCEPT !.queue = Enqueue(@, lockRequest(who, FALSE))], <<>>)

\* case <-lock.rUnlock
SchedRUnlock(m) ==
    LET n == m.nReading - 1 IN
    IF n = 0 /\ ~Empty(m.queue)
    THEN Ev([m EXCEPT !.nReading = n, !.queue = Dequeue(@), !.writing = TRUE],
            <<Peek(m.queue).who>>)
    ELSE Ev([m EXCEPT !.nReading = n], <<>>)

\* the loop "for !queue.Empty()" of wUnlock: the readers at the head of q
RECURSIVE ReadersAtHead(_)
ReadersAtHead(q) ==
    IF Empty(q) THEN <<>>
    ELSE IF Peek(q).readonly THEN <<Peek(q)>> \o ReadersAtHead(Dequeue(q))
    ELSE <<>>

\* mutant: wUnlock admits the head of the queue and no reader behind it
SchedWUnlockHeadOnly(m) ==
    LET m0 == [m EXCEPT !.writing = FALSE]
        m1 == IF ~Empty(m0.queue)
              THEN IF Peek(m0.queue).readonly
                   THEN [m0 EXCEPT !.queue = Dequeue(@), !.nReading = @ + 1]
                   ELSE [m0 EXCEPT !.queue = Dequeue(@), !.writing = TRUE]
              ELSE m0
        g1 == IF ~Empty(m0.queue) THEN <<Peek(m0.queue).who>> ELSE <<>>
    IN  Ev(m1, g1)

\* case <-lock.wUnlock
SchedWUnlock(m) ==
    LET m0 == [m EXCEPT !.writing = FALSE]
        m1 == IF ~Empty(m0.queue)
              THEN IF Peek(m0.queue).readonly
                   THEN [m0 EXCEPT !.queue = Dequeue(@), !.nReading = @ + 1]
                   ELSE [m0 EXCEPT !.queue = Dequeue(@), !.writing = TRUE]
              ELSE m0
        g1 == IF ~Empty(m0.queue) THEN <<Peek(m0.queue).who>> ELSE <<>>
        rs == IF m1.nReading > 0 THEN ReadersAtHead(m1.queue) ELSE <<>>
        m2 == [m1 EXCEPT !.queue = SubSeq(@, Len(rs) + 1, Len(@)),
                         !.nReading = @ + Len(rs)]
    IN  Ev(m2, g1 \o [i \in 1..Len(rs) |-> rs[i].who])

\* case <-lock.quit
SchedQuit(m) == [m EXCEPT !.alive = FALSE]

\* ------------------------------------------------------- namespace (pure)
\* A path is the sequence of its segments: "/" is <<>>, "/d/f" is <<"d", "f">>.
\* pathToNames puts the root's name "" in front, as strings.Split does.
pathToNames(pth) == <<"">> \o pth

Root == 1

\* nil
Nil == 0

\* A node of the tree, Directory or FileInfo; `nodes` is the heap, a node's
\* index its address.
\* mutant: a directory is created without its parent pointer
NewDirectoryNoParent(name, parent) ==
    [kind |-> "dir", name |-> name, parent |-> Nil,
     subDirectories |-> <<>>, subFiles |-> <<>>,
     path |-> <<>>, storageServers |-> <<>>, rCount |-> 0]

NewDirectory(name, parent) ==
    [kind |-> "dir", name |-> name, parent |-> parent,
     subDirectories |-> <<>>, subFiles |-> <<>>,
     path |-> <<>>, storageServers |-> <<>>, rCount |-> 0]

\* mutant: a file is created without its storage server
NewFileInfoNoServer(name, pth, parent, storageServer) ==
    [kind |-> "file", name |-> name, parent |-> parent,
     subDirectories |-> <<>>, subFiles |-> <<>>,
     path |-> pth, storageServers |-> <<>>, rCount |-> 0]

\* FileInfo of CreateFile and RegisterFiles, with "file.storageServers =
\* append(file.storageServers, storageServer)"
NewFileInfo(name, pth, parent, storageServer) ==
    [kind |-> "file", name |-> name, parent |-> parent,
     subDirectories |-> <<>>, subFiles |-> <<>>,
     path |-> pth, storageServers |-> <<storageServer>>, rCount |-> 0]

\* "for _, x := range list { if x.name == name { ...; break } }": the first
\* position in list of a node called name, 0 when there is none
IndexOfName(ns, list, name) ==
    LET hits == {i \in 1..Len(list) : ns[list[i]].name = name} IN
    IF hits = {} THEN 0 ELSE CHOOSE i \in hits : \A k \in hits : i <= k

FindByName(ns, list, name) ==
    LET i == IndexOfName(ns, list, name) IN IF i = 0 THEN Nil ELSE list[i]

RECURSIVE WalkFrom(_, _, _)
WalkFrom(ns, curr, names) ==
    IF names = <<>> THEN curr
    ELSE LET next == FindByName(ns, ns[curr].subDirectories, Head(names)) IN
         IF next = Nil THEN Nil ELSE WalkFrom(ns, next, Tail(names))

\* Directory.walkPath on the root
walkPath(ns, names) ==
    IF Len(names) = 0 THEN Nil
    ELSE IF names[1] # "" THEN Nil
    ELSE WalkFrom(ns, Root, Tail(names))

\* the two loops of LockFileOrDirectory that look the item up in its parent:
\* a file of that name is found last and wins
FindItem(ns, parent, itemName) ==
    LET dir == FindByName(ns, ns[parent].subDirectories, itemName)
        file == FindByName(ns, ns[parent].subFiles, itemName)
    IN  IF file # Nil THEN file ELSE dir

\* mutant: only the sub-directories are searched for the name
NameTakenDirsOnly(ns, parent, name) ==
    FindByName(ns, ns[parent].subDirectories, name) # Nil

\* the name check of MakeDirectory, CreateFile and RegisterFiles
NameTaken(ns, parent, name) ==
    \/ FindByName(ns, ns[parent].subDirectories, name) # Nil
    \/ FindByName(ns, ns[parent].subFiles, name) # Nil

Front(s) == SubSeq(s, 1, Len(s) - 1)

Last(s) == s[Len(s)]

\* mutant: a path whose parent exists is reported as a directory without
\* looking the name up
PathExistsParentOnly(ns, pth) ==
    LET names == pathToNames(pth)
        parent == walkPath(ns, Front(names))
        none == [foundDir |-> FALSE, foundFile |-> FALSE, err |-> "none"]
    IN  IF Len(names) = 0 THEN [none EXCEPT !.err = "IllegalArgumentException"]
        ELSE IF Len(names) = 1 THEN [none EXCEPT !.foundDir = TRUE]
        ELSE IF parent = Nil THEN none
        ELSE [none EXCEPT !.foundDir = TRUE]

\* Directory.PathExists: (foundDir, foundFile, err)
PathExists(ns, pth) ==
    LET names == pathToNames(pth)
        parent == walkPath(ns, Front(names))
        none == [foundDir |-> FALSE, foundFile |-> FALSE, err |-> "none"]
    IN  IF Len(names) = 0 THEN [none EXCEPT !.err = "IllegalArgumentException"]
        ELSE IF Len(names) = 1 THEN [none EXCEPT !.foundDir = TRUE]
        ELSE IF parent = Nil THEN none
        ELSE [none EXCEPT
                !.foundDir = IndexOfName(ns, ns[parent].subDirectories, Last(names)) # 0,
                !.foundFile = IndexOfName(ns, ns[parent].subFiles, Last(names)) # 0]

\* Directory.MakeDirectory: [nodes, ok, err]
\* mutant: a missing parent is answered like an existing name, without error
MakeDirectoryNoParentError(ns, pth) ==
    LET names == pathToNames(pth)
        parent == walkPath(ns, Front(names))
    IN  IF Len(names) = 1 THEN [nodes |-> ns, ok |-> FALSE, err |-> "none"]
        ELSE IF parent = Nil
        THEN [nodes |-> ns, ok |-> FALSE, err |-> "none"]
        ELSE IF NameTaken(ns, parent, Last(names))
        THEN [nodes |-> ns, ok |-> FALSE, err |-> "none"]
        ELSE [nodes |-> Append([ns EXCEPT ![parent].subDirectories =
                                        Append(@, Len(ns) + 1)],
                               NewDirectory(Last(names), parent)),
              ok |-> TRUE, err |-> "none"]

\* Directory.MakeDirectory: [nodes, ok, err]
MakeDirectory(ns, pth) ==
    LET names == pathToNames(pth)
        parent == walkPath(ns, Front(names))
    IN  IF Len(names) = 1 THEN [nodes |-> ns, ok |-> FALSE, err |-> "none"]
        ELSE IF parent = Nil
        THEN [nodes |-> ns, ok |-> FALSE, err |-> "FileNotFoundException"]
        ELSE IF NameTaken(ns, parent, Last(names))
        THEN [nodes |-> ns, ok |-> FALSE, err |-> "none"]
        ELSE [nodes |-> Append([ns EXCEPT ![parent].subDirectories =
                                        Append(@, Len(ns) + 1)],
                               NewDirectory(Last(names), parent)),
              ok |-> TRUE, err |-> "none"]

\* mutant: no test for the root path, "/" is looked up like any other path
CreateFileNoRootCheck(ns, pth, storageServer) ==
    LET names == pathToNames(pth)
        parent == walkPath(ns, Front(names))
    IN  IF parent = Nil
        THEN [nodes |-> ns, file |-> Nil, err |-> "FileNotFoundException"]
        ELSE IF NameTaken(ns, parent, Last(names))
        THEN [nodes |-> ns, file |-> Nil, err |-> "none"]
        ELSE [nodes |-> Append([ns EXCEPT ![parent].subFiles =
                                        Append(@, Len(ns) + 1)],
                               NewFileInfo(Last(names), pth, parent, storageServer)),
              file |-> Len(ns) + 1, err |-> "none"]

\* Directory.CreateFile: [nodes, file, err]
CreateFile(ns, pth, storageServer) ==
    LET names == pathToNames(pth)
        parent == walkPath(ns, Front(names))
    IN  IF Len(names) = 1 THEN [nodes |-> ns, file |-> Nil, err |-> "none"]
        ELSE IF parent = Nil
        THEN [nodes |-> ns, file |-> Nil, err |-> "FileNotFoundException"]
        ELSE IF NameTaken(ns, parent, Last(names))
        THEN [nodes |-> ns, file |-> Nil, err |-> "none"]
        ELSE [nodes |-> Append([ns EXCEPT ![parent].subFiles =
                                        Append(@, Len(ns) + 1)],
                               NewFileInfo(Last(names), pth, parent, storageServer)),
              file |-> Len(ns) + 1, err |-> "none"]

\* Directory.DeletePath: [nodes, item, destroyed, err]; destroyed are the
\* nodes whose lock.Destroy() was called. The variable index is shared by the
\* two loops, so a file of the same name overwrites the directory's index.
DeletePath(ns, pth) ==
    LET names == pathToNames(pth)
        parent == walkPath(ns, Front(names))
        di == IndexOfName(ns, ns[parent].subDirectories, Last(names))
        fi == IndexOfName(ns, ns[parent].subFiles, Last(names))
        index == IF fi # 0 THEN fi ELSE di
        deletedDir == IF di = 0 THEN Nil ELSE ns[parent].subDirectories[di]
        deletedFile == IF fi = 0 THEN Nil ELSE ns[parent].subFiles[fi]
        none == [nodes |-> ns, item |-> Nil, destroyed |-> {}, err |-> "none"]
    IN  IF Len(names) = 1 THEN none
        ELSE IF parent = Nil THEN [none EXCEPT !.err = "FileNotFoundException"]
        ELSE IF deletedDir = Nil /\ deletedFile = Nil
        THEN [none EXCEPT !.err = "FileNotFoundException"]
        ELSE IF deletedDir # Nil
        THEN [nodes |-> [ns EXCEPT ![parent].subDirectories =
                            RemoveAt(@, IF index <= Len(@) THEN index ELSE Len(@))],
              item |-> deletedDir,
              destroyed |-> {deletedDir, deletedFile} \ {Nil}, err |-> "none"]
        ELSE [nodes |-> [ns EXCEPT ![parent].subFiles = RemoveAt(@, index)],
              item |-> deletedFile, destroyed |-> {deletedFile}, err |-> "none"]

\* Directory.GetPath: the names from the root down, without the root's ""
RECURSIVE GetPath(_, _)
GetPath(ns, d) ==
    IF d = Nil \/ ns[d].parent = Nil THEN <<>>
    ELSE Append(GetPath(ns, ns[d].parent), ns[d].name)

\* RegisterFiles, the walk over the directory names of one entry, creating
\* the missing ones: [nodes, curr, failed]
RECURSIVE RegisterWalk(_, _, _)
RegisterWalk(ns, curr, names) ==
    IF names = <<>> THEN [nodes |-> ns, curr |-> curr, failed |-> FALSE]
    ELSE LET dir == FindByName(ns, ns[curr].subDirectories, Head(names)) IN
         IF dir # Nil THEN RegisterWalk(ns, dir, Tail(names))
         ELSE IF FindByName(ns, ns[curr].subFiles, Head(names)) # Nil
         THEN [nodes |-> ns, curr |-> curr, failed |-> TRUE]
         ELSE RegisterWalk(
                 Append([ns EXCEPT ![curr].subDirectories = Append(@, Len(ns) + 1)],
                        NewDirectory(Head(names), curr)),
                 Len(ns) + 1, Tail(names))

\* mutant: the file is registered without the check of its name in the parent
RegisterOneNoNameCheck(ns, pth, storageServer) ==
    LET names == pathToNames(pth)
        w == RegisterWalk(ns, Root, Front(Tail(names)))
    IN  IF Len(names) = 1 THEN [nodes |-> ns, ok |-> TRUE]
        ELSE IF w.failed THEN [nodes |-> w.nodes, ok |-> FALSE]
        ELSE [nodes |-> Append([w.nodes EXCEPT ![w.curr].subFiles =
                                        Append(@, Len(w.nodes) + 1)],
                               NewFileInfo(Last(names), pth, w.curr, storageServer)),
              ok |-> TRUE]

\* RegisterFiles, one entry of pths: [nodes, ok]
RegisterOne(ns, pth, storageServer) ==
    LET names == pathToNames(pth)
        w == RegisterWalk(ns, Root, Front(Tail(names)))
    IN  IF Len(names) = 1 THEN [nodes |-> ns, ok |-> TRUE]
        ELSE IF w.failed THEN [nodes |-> w.nodes, ok |-> FALSE]
        ELSE IF NameTaken(w.nodes, w.curr, Last(names))
        THEN [nodes |-> w.nodes, ok |-> FALSE]
        ELSE [nodes |-> Append([w.nodes EXCEPT ![w.curr].subFiles =
                                        Append(@, Len(w.nodes) + 1)],
                               NewFileInfo(Last(names), pth, w.curr, storageServer)),
              ok |-> TRUE]

\* Directory.RegisterFiles between d.lock.Lock() and the return:
\* [nodes, success]
RECURSIVE RegisterFiles(_, _, _)
RegisterFiles(ns, pths, storageServer) ==
    IF pths = <<>> THEN [nodes |-> ns, success |-> <<>>]
    ELSE LET one == RegisterOne(ns, Head(pths), storageServer)
             rest == RegisterFiles(one.nodes, Tail(pths), storageServer)
         IN  [nodes |-> rest.nodes, success |-> <<one.ok>> \o rest.success]

\* --------------------------------------------------------- registry (pure)
\* A storage server is known by the index of its registration request; the
\* requests of the model carry these ports: servers 1 and 2 have the client
\* port in common, servers 1 and 3 the command port.
clientPort(server) == ((server - 1) \div 2) + 1

commandPort(server) == ((server - 1) % 2) + 1

\* mutant: a server is taken for registered when one of its ports is known
AlreadyRegisteredAnyPort(registry, server) ==
    \E i \in 1..Len(registry) :
        \/ clientPort(registry[i]) = clientPort(server)
        \/ commandPort(registry[i]) = commandPort(server)

\* registerStorageHandler: "server.clientPort == body.ClientPort &&
\* server.commandPort == body.CommandPort" for some registered server
AlreadyRegistered(registry, server) ==
    \E i \in 1..Len(registry) :
        /\ clientPort(registry[i]) = clientPort(server)
        /\ commandPort(registry[i]) = commandPort(server)

\* ------------------------------------------------------ replication (pure)
\* mutant: the threshold test is "rCount > 20"
ThresholdReachedLate(rCount) == rCount > ReplicationThreshold

\* "if file.rCount >= 20"
ThresholdReached(rCount) == rCount >= ReplicationThreshold

\* mutant: the destination is appended whatever the copy command returned
AfterCopyAlways(file, dst, success) ==
    [file EXCEPT !.storageServers = Append(@, dst)]

\* "if success { file.storageServers = append(file.storageServers, dst) }"
AfterCopy(file, dst, success) ==
    IF success THEN [file EXCEPT !.storageServers = Append(@, dst)] ELSE file

\* the history counter reads wraps here
ReadsModulus == 2 * ReplicationThreshold

\* ---------------------------------------- the storage servers' disks (history)
\* no storage server holds anything
StoreEmpty == [s \in Servers |-> {}]

\* a storage command has failed: the disks are followed no further
StoreFailed == [ok |-> FALSE, at |-> StoreEmpty]

\* a create or copy command succeeded on server, or server registered pths
StorePut(st, server, pths) ==
    IF st.ok THEN [st EXCEPT !.at[server] = @ \cup pths] ELSE st

\* a delete command for pth succeeded on server: pth and all below it go
StoreDelete(st, server, pth) ==
    IF st.ok THEN [st EXCEPT !.at[server] = {x \in @ : ~IsPrefix(pth, x)}] ELSE st

\* the effect of a storage command on the disks
StoreCommand(st, success, after) == IF success THEN after ELSE StoreFailed

\* --------------------------------------------------------------- variables
VARIABLES
    mu,      \* SpecMutex: the scheduler state of one FIFORWMutex
    mst,     \* SpecMutex: where each goroutine is in its use of the mutex
    morder,  \* SpecMutex (history): requests received and not yet released, in the
             \* order the scheduler received them
    mlast,   \* SpecMutex (history): the requesters the latest step granted, when
             \* that step was a release; <<>> after any other step
    nodes,            \* the heap of Directory and FileInfo objects; nodes[Root] is s.root
    lock,             \* lock[n]: the scheduler state of node n's FIFORWMutex
    rCountMtx,        \* rCountMtx[n]: the request that holds file n's rCountMtx, or Nil
    rLockedItems,     \* root.rLockedItems: path -> [item, count]
    wLockedItems,     \* root.wLockedItems: path -> item
    rLockedItemsMtx,  \* holder of root.rLockedItemsMtx, or Nil
    wLockedItemsMtx,  \* holder of root.wLockedItemsMtx, or Nil
    storageServers,   \* s.storageServers, the registry
    sLock,            \* s.lock (sync.RWMutex): writer, readers, writers that wait
    h,                \* h[p]: the request goroutine p runs, its locals and its place
    nops,             \* requests started so far
    arrivals,         \* (history) /lock requests in the order they arrived
    torder,           \* (history) /lock requests in the order the target's scheduler
                      \* received them
    outR,             \* (history) outR[pth]: successful shared /lock minus successful
                      \* shared /unlock on pth
    outW,             \* (history) the same for exclusive
    reads,            \* (history) reads[n]: shared /lock calls that counted a read of
                      \* file n since its creation or its last exclusive /lock,
                      \* modulo ReadsModulus
    copied,           \* (history) copied[n]: the servers whose copy command for
                      \* file n returned success
    stored            \* (history) the storage servers' disks while every storage
                      \* command succeeded: stored.at[s] are the paths s holds

mvars == <<mu, mst, morder, mlast>>

treevars == <<nodes, lock, rCountMtx, storageServers, sLock>>

tablevars == <<rLockedItems, wLockedItems, rLockedItemsMtx, wLockedItemsMtx>>

histvars == <<arrivals, torder, outR, outW>>

repvars == <<reads, copied, stored>>

nvars == <<treevars, tablevars, h, nops, histvars, repvars>>

vars == <<mvars, nvars>>

\* ------------------------------------------------ SpecMutex: one FIFORWMutex
MWaiting == {"sendR", "sendW", "waitR", "waitW"}

MHolding == {"holdR", "holdW"}

InitMutex ==
    /\ mu = NewFIFORWMutex
    /\ mst = [c \in Clients |-> "idle"]
    /\ morder = <<>>
    /\ mlast = <<>>

\* the receive "<-granted" of the requesters the scheduler sent to
MGranted(st, granted) ==
    [c \in Clients |->
        IF c \in Range(granted)
        THEN (IF st[c] \in {"sendR", "waitR"} THEN "holdR" ELSE "holdW")
        ELSE st[c]]

\* RLock(): the goroutine reaches "lock.rLock <- granted"
MCallRLock(c) ==
    /\ mst[c] = "idle"
    /\ mst' = [mst EXCEPT ![c] = "sendR"]
    /\ mlast' = <<>>
    /\ UNCHANGED <<mu, morder, nvars>>

\* Lock(): the goroutine reaches "lock.wLock <- granted"
MCallLock(c) ==
    /\ mst[c] = "idle"
    /\ mst' = [mst EXCEPT ![c] = "sendW"]
    /\ mlast' = <<>>
    /\ UNCHANGED <<mu, morder, nvars>>

\* the scheduler receives c's request on rLock
MRecvRLock(c) ==
    /\ mst[c] = "sendR"
    /\ mu.alive
    /\ LET ev == SchedRLock(mu, c) IN
        /\ mu' = ev.m
        /\ mst' = MGranted([mst EXCEPT ![c] = "waitR"], ev.granted)
    /\ morder' = Append(morder, c)
    /\ mlast' = <<>>
    /\ UNCHANGED nvars

\* the scheduler receives c's request on wLock
MRecvLock(c) ==
    /\ mst[c] = "sendW"
    /\ mu.alive
    /\ LET ev == SchedWLock(mu, c) IN
        /\ mu' = ev.m
        /\ mst' = MGranted([mst EXCEPT ![c] = "waitW"], ev.granted)
    /\ morder' = Append(morder, c)
    /\ mlast' = <<>>
    /\ UNCHANGED nvars

\* RUnlock() by a goroutine that was granted a read lock
MRUnlock(c) ==
    /\ mst[c] = "holdR"
    /\ mu.alive
    /\ LET ev == SchedRUnlock(mu) IN
        /\ mu' = ev.m
        /\ mst' = MGranted([mst EXCEPT ![c] = "idle"], ev.granted)
        /\ mlast' = ev.granted
    /\ morder' = Without(morder, c)
    /\ UNCHANGED nvars

\* Unlock() by the goroutine that was granted the write lock
MUnlock(c) ==
    /\ mst[c] = "holdW"
    /\ mu.alive
    /\ LET ev == SchedWUnlock(mu) IN
        /\ mu' = ev.m
        /\ mst' = MGranted([mst EXCEPT ![c] = "idle"], ev.granted)
        /\ mlast' = ev.granted
    /\ morder' = Without(morder, c)
    /\ UNCHANGED nvars

NextMutex ==
    \E c \in Clients :
        \/ MCallRLock(c)
        \/ MCallLock(c)
        \/ MRecvRLock(c)
        \/ MRecvLock(c)
        \/ MRUnlock(c)
        \/ MUnlock(c)

\* Destroy(): the goroutine reaches "lock.quit <- empty{}"
MCallDestroy(c) ==
    /\ mst[c] = "idle"
    /\ mst' = [mst EXCEPT ![c] = "sendQ"]
    /\ mlast' = <<>>
    /\ UNCHANGED <<mu, morder, nvars>>

\* the scheduler receives on quit and leaves its loop: Destroy() returns, the
\* goroutine of the scheduler ends
MRecvQuit(c) ==
    /\ mst[c] = "sendQ"
    /\ mu.alive
    /\ mu' = SchedQuit(mu)
    /\ mst' = [mst EXCEPT ![c] = "idle"]
    /\ mlast' = <<>>
    /\ UNCHANGED <<morder, nvars>>

\* one FIFORWMutex with goroutines that may also destroy it
NextMutexDestroy ==
    \/ NextMutex
    \/ \E c \in Clients : MCallDestroy(c)
    \/ \E c \in Clients : MRecvQuit(c)

\* ------------------------------------------------ the naming server: state
\* the paths requests name: "/", "/d", "/d/f"
ReqPaths == {<<>>, <<"d">>, <<"d", "f">>}

\* the locals of a request goroutine; pc names the blocking call it is at
Idle ==
    [op |-> "none", pth |-> <<>>, readonly |-> FALSE, pc |-> "idle",
     curr |-> Nil, j |-> 0, item |-> Nil, server |-> Nil, dst |-> Nil,
     pending |-> {}, failed |-> FALSE, resp |-> "none", out |-> <<>>]

\* NewNamingServer
InitNaming ==
    /\ nodes = <<NewDirectory("", Nil)>>
    /\ lock = <<NewFIFORWMutex>>
    /\ rCountMtx = <<Nil>>
    /\ rLockedItems = <<>>
    /\ wLockedItems = <<>>
    /\ rLockedItemsMtx = Nil
    /\ wLockedItemsMtx = Nil
    /\ storageServers = <<>>
    /\ sLock = [writer |-> Nil, readers |-> {}, waiting |-> {}]
    /\ h = [p \in Procs |-> Idle]
    /\ nops = 0
    /\ arrivals = <<>>
    /\ torder = <<>>
    /\ outR = [pth \in ReqPaths |-> 0]
    /\ outW = [pth \in ReqPaths |-> 0]
    /\ reads = [n \in 1..MaxNodes |-> 0]
    /\ copied = [n \in 1..MaxNodes |-> {}]
    /\ stored = [ok |-> TRUE, at |-> StoreEmpty]

\* the goroutine has no request in progress
Free(p) == h[p].pc \in {"idle", "done"}

\* the response of a handler. The goroutine ends: of its locals only the
\* response stays, with the request it answers, and for a granted /lock the
\* mode the client now holds.
Respond(hr, resp) ==
    LET holds == hr.op = "lock" /\ resp = "ok" IN
    [Idle EXCEPT !.pc = "done", !.resp = resp,
                 !.op = hr.op,
                 !.pth = hr.pth,
                 !.readonly = IF holds THEN hr.readonly ELSE FALSE,
                 !.server = IF hr.op = "get_storage" THEN hr.server ELSE Nil,
                 !.out = IF hr.op = "register" THEN hr.out ELSE <<>>]

\* map without key k / with k set to v (Go's delete(m, k) and m[k] = v)
MapDelete(m, k) == [x \in DOMAIN m \ {k} |-> m[x]]

MapPut(m, k, v) == [x \in DOMAIN m \cup {k} |-> IF x = k THEN v ELSE m[x]]

\* sync.RWMutex s.lock: RLock gets through when no writer holds or waits
SLockReadable == sLock.writer = Nil /\ sLock.waiting = {}

SLockFree == sLock.writer = Nil /\ sLock.readers = {}

\* ------------------------------------------- LockFileOrDirectory / lockPath
\* mutant: a walk that finds nothing answers without unlockPath(curr), the
\* read locks of the directories it passed stay held
AfterRLockNoRelease(ns, hr) ==
    LET names == pathToNames(hr.pth)
        dirNames == Tail(Front(names))
    IN  IF hr.j < Len(dirNames)
        THEN LET dir == FindByName(ns, ns[hr.curr].subDirectories, dirNames[hr.j + 1]) IN
             IF dir = Nil THEN Respond(hr, "FileNotFoundException")
             ELSE [hr EXCEPT !.curr = dir, !.j = @ + 1, !.pc = "lk_rlock"]
        ELSE LET fsItem == FindItem(ns, hr.curr, Last(names)) IN
             IF fsItem = Nil THEN Respond(hr, "FileNotFoundException")
             ELSE [hr EXCEPT !.item = fsItem, !.pc = "lk_tlock"]

\* lockPath after curr.lock.RLock() returned: look the next name up and go on
\* to the next RLock, to the target, or give up (unlockPath(curr)).
AfterRLock(ns, hr) ==
    LET names == pathToNames(hr.pth)
        dirNames == Tail(Front(names))
    IN  IF hr.j < Len(dirNames)
        THEN LET dir == FindByName(ns, ns[hr.curr].subDirectories, dirNames[hr.j + 1]) IN
             IF dir = Nil THEN [hr EXCEPT !.pc = "lk_unwind"]
             ELSE [hr EXCEPT !.curr = dir, !.j = @ + 1, !.pc = "lk_rlock"]
        ELSE LET fsItem == FindItem(ns, hr.curr, Last(names)) IN
             IF fsItem = Nil THEN [hr EXCEPT !.pc = "lk_unwind"]
             ELSE [hr EXCEPT !.item = fsItem, !.pc = "lk_tlock"]

\* what a goroutine blocked in "<-granted" does when the grant arrives
AfterGrant(ns, hr) ==
    CASE hr.pc = "lk_rwait" -> AfterRLock(ns, hr)
      [] hr.pc = "lk_twait" -> [hr EXCEPT !.pc = "lk_table"]
      [] hr.pc = "rg_wait" -> [hr EXCEPT !.pc = "rg_merge"]
      [] OTHER -> hr

Granted(ns, hh, granted) ==
    [q \in Procs |-> IF q \in Range(granted) THEN AfterGrant(ns, hh[q]) ELSE hh[q]]

\* mutant: the target is always locked shared
TargetLockShared(m, who, readonly) == SchedRLock(m, who)

\* "if readonly { fsItem.GetLock().RLock() } else { fsItem.GetLock().Lock() }"
TargetLock(m, who, readonly) ==
    IF readonly THEN SchedRLock(m, who) ELSE SchedWLock(m, who)

\* mutant: the target is always released with RUnlock()
TargetUnlockShared(m, readonly) == SchedRUnlock(m)

\* "if readonly { RUnlock() } else { Unlock() }" of UnlockFileOrDirectory
TargetUnlock(m, readonly) ==
    IF readonly THEN SchedRUnlock(m) ELSE SchedWUnlock(m)

\* a /lock request arrives: lockHandler starts
StartLock(p, pth, readonly) ==
    /\ Free(p)
    /\ h' = [h EXCEPT ![p] =
                IF pth = <<>>
                THEN [Idle EXCEPT !.op = "lock", !.pth = pth, !.readonly = readonly,
                                  !.item = Root, !.pc = "lk_tlock"]
                ELSE [Idle EXCEPT !.op = "lock", !.pth = pth, !.readonly = readonly,
                                  !.curr = Root, !.pc = "lk_rlock"]]
    /\ arrivals' = Append(Without(arrivals, p), p)
    /\ torder' = DropWho(torder, p)
    /\ UNCHANGED <<mvars, treevars, tablevars, outR, outW>>
    /\ UNCHANGED repvars

\* lockPath: curr.lock.RLock()
LockPathRLock(p) ==
    /\ h[p].pc = "lk_rlock"
    /\ lock[h[p].curr].alive
    /\ LET ev == SchedRLock(lock[h[p].curr], p) IN
        /\ lock' = [lock EXCEPT ![h[p].curr] = ev.m]
        /\ h' = Granted(nodes, [h EXCEPT ![p].pc = "lk_rwait"], ev.granted)
    /\ UNCHANGED <<mvars, nodes, rCountMtx, storageServers, sLock, tablevars, nops,
                   histvars>>
    /\ UNCHANGED repvars

\* LockFileOrDirectory: the lock of the target in the requested mode
LockTarget(p) ==
    /\ h[p].pc = "lk_tlock"
    /\ lock[h[p].item].alive
    /\ LET ev == TargetLock(lock[h[p].item], p, h[p].readonly) IN
        /\ lock' = [lock EXCEPT ![h[p].item] = ev.m]
        /\ h' = Granted(nodes, [h EXCEPT ![p].pc = "lk_twait"], ev.granted)
    /\ torder' = Append(torder, [who |-> p, item |-> h[p].item])
    /\ UNCHANGED <<mvars, nodes, rCountMtx, storageServers, sLock, tablevars, nops,
                   arrivals, outR, outW>>
    /\ UNCHANGED repvars

\* the request after the lock tables are written: a file goes on to the
\* replication part of lockHandler, a directory is answered
AfterTable(hr) ==
    IF nodes[hr.item].kind = "file" THEN [hr EXCEPT !.pc = "lk_repl"]
    ELSE Respond(hr, "ok")

\* the history count of a successful /lock
CountLock(hr, hr2) ==
    /\ outR' = IF hr2.pc = "done" /\ hr.readonly
               THEN [outR EXCEPT ![hr.pth] = @ + 1] ELSE outR
    /\ outW' = IF hr2.pc = "done" /\ ~hr.readonly
               THEN [outW EXCEPT ![hr.pth] = @ + 1] ELSE outW

\* LockFileOrDirectory: "add it to rLockedItems table" / wLockedItems
LockTable(p) ==
    /\ h[p].pc = "lk_table"
    /\ IF h[p].readonly
       THEN /\ rLockedItemsMtx = Nil
            /\ rLockedItems' =
                 IF h[p].pth \in DOMAIN rLockedItems
                 THEN [rLockedItems EXCEPT ![h[p].pth].count = @ + 1]
                 ELSE MapPut(rLockedItems, h[p].pth, [item |-> h[p].item, count |-> 1])
            /\ UNCHANGED wLockedItems
       ELSE /\ wLockedItemsMtx = Nil
            /\ wLockedItems' = MapPut(wLockedItems, h[p].pth, h[p].item)
            /\ UNCHANGED rLockedItems
    /\ h' = [h EXCEPT ![p] = AfterTable(h[p])]
    /\ CountLock(h[p], h'[p])
    /\ UNCHANGED <<mvars, treevars, rLockedItemsMtx, wLockedItemsMtx, nops, arrivals,
                   torder>>
    /\ UNCHANGED repvars

\* mutant: wg.Wait() that does not wait
WaitGroupNoWait(pending) == TRUE

\* wg.Wait(): every storageDeleteCommand goroutine has called wg.Done()
WaitGroupWait(pending) == pending = {}

\* lockHandler, exclusive branch: "file.rCount = 0"; the replica list is not
\* written
Invalidate(file) == [file EXCEPT !.rCount = 0]

\* lockHandler on a file: rCountMtx.Lock(), then the exclusive branch up to
\* wg.Wait(), or the shared branch up to the threshold test
LockReplicate(p) ==
    LET f == h[p].item IN
    /\ h[p].pc = "lk_repl"
    /\ rCountMtx[f] = Nil
    /\ IF ~h[p].readonly
       THEN LET deletes == Range(Tail(nodes[f].storageServers)) IN
            /\ nodes' = [nodes EXCEPT ![f] = Invalidate(@)]
            /\ IF deletes = {}
               THEN /\ h' = [h EXCEPT ![p] = Respond(@, "ok")]
                    /\ UNCHANGED rCountMtx
               ELSE /\ h' = [h EXCEPT ![p].pending = deletes, ![p].pc = "lk_wait"]
                    /\ rCountMtx' = [rCountMtx EXCEPT ![f] = p]
       ELSE IF ThresholdReached(nodes[f].rCount + 1)
       THEN /\ nodes' = [nodes EXCEPT ![f].rCount = @ + 1 - ReplicationThreshold]
            /\ h' = [h EXCEPT ![p].pc = "lk_cand"]
            /\ rCountMtx' = [rCountMtx EXCEPT ![f] = p]
       ELSE /\ nodes' = [nodes EXCEPT ![f].rCount = @ + 1]
            /\ h' = [h EXCEPT ![p] = Respond(@, "ok")]
            /\ UNCHANGED rCountMtx
    /\ CountLock(h[p], h'[p])
    /\ reads' = [reads EXCEPT ![f] = IF h[p].readonly THEN (@ + 1) % ReadsModulus ELSE 0]
    /\ UNCHANGED <<mvars, lock, storageServers, sLock, tablevars, nops, arrivals, torder,
                   copied, stored>>

\* mutant: every registered server is a candidate
ReplicaCandidatesAny(servers, file) == Range(servers)

\* the loop over s.storageServers: the registered servers that are not among
\* the file's replicas
ReplicaCandidates(servers, file) == Range(servers) \ Range(file.storageServers)

\* lockHandler, shared branch at the threshold: s.lock.RLock(), the
\* candidates, and the copy command sent to a random one
LockCandidates(p) ==
    LET f == h[p].item
        candidates == ReplicaCandidates(storageServers, nodes[f])
    IN
    /\ h[p].pc = "lk_cand"
    /\ SLockReadable
    /\ IF candidates = {}
       THEN /\ h' = [h EXCEPT ![p] = Respond(@, "ok")]
            /\ rCountMtx' = [rCountMtx EXCEPT ![f] = Nil]
       ELSE /\ \E dst \in candidates, src \in Range(nodes[f].storageServers) :
                h' = [h EXCEPT ![p].dst = dst, ![p].server = src, ![p].pc = "lk_copy"]
            /\ UNCHANGED rCountMtx
    /\ CountLock(h[p], h'[p])
    /\ UNCHANGED <<mvars, nodes, lock, storageServers, sLock, tablevars, nops, arrivals,
                   torder>>
    /\ UNCHANGED repvars

\* storageCopyCommand returns, with success or with a failure that is only
\* printed
CopyCommandDone(p, success) ==
    LET f == h[p].item IN
    /\ h[p].pc = "lk_copy"
    /\ h' = [h EXCEPT ![p].failed = ~success, ![p].pc = "lk_copied"]
    /\ copied' = IF success THEN [copied EXCEPT ![f] = @ \cup {h[p].dst}] ELSE copied
    /\ stored' = StoreCommand(stored, success, StorePut(stored, h[p].dst, {nodes[f].path}))
    /\ UNCHANGED <<mvars, treevars, tablevars, nops, histvars, reads>>

\* lockHandler after storageCopyCommand: the append on success, the deferred
\* rCountMtx.Unlock(), the answer
LockCopied(p) ==
    LET f == h[p].item IN
    /\ h[p].pc = "lk_copied"
    /\ nodes' = [nodes EXCEPT ![f] = AfterCopy(@, h[p].dst, ~h[p].failed)]
    /\ h' = [h EXCEPT ![p] = Respond(@, "ok")]
    /\ rCountMtx' = [rCountMtx EXCEPT ![f] = Nil]
    /\ CountLock(h[p], h'[p])
    /\ UNCHANGED <<mvars, lock, storageServers, sLock, tablevars, nops, arrivals, torder,
                   repvars>>

\* a storageDeleteCommand goroutine ends, with success or with a failure that
\* is only printed: wg.Done()
DeleteCommandDone(p, server, success) ==
    /\ server \in h[p].pending
    /\ h' = [h EXCEPT ![p].pending = @ \ {server}, ![p].failed = @ \/ ~success]
    /\ stored' = StoreCommand(stored, success, StoreDelete(stored, server, h[p].pth))
    /\ UNCHANGED <<mvars, treevars, tablevars, nops, histvars, reads, copied>>

\* lockHandler, exclusive branch: wg.Wait() returns, the handler answers
LockWaited(p) ==
    /\ h[p].pc = "lk_wait"
    /\ WaitGroupWait(h[p].pending)
    /\ h' = [h EXCEPT ![p] = Respond(@, "ok")]
    /\ rCountMtx' = [rCountMtx EXCEPT ![h[p].item] = Nil]
    /\ CountLock(h[p], h'[p])
    /\ UNCHANGED <<mvars, nodes, lock, storageServers, sLock, tablevars, nops, arrivals,
                   torder>>
    /\ UNCHANGED repvars

\* ------------------------------------------------- UnlockFileOrDirectory
\* a /unlock request arrives: unlockHandler starts
StartUnlock(p, pth, readonly) ==
    /\ Free(p)
    /\ h' = [h EXCEPT ![p] = [Idle EXCEPT !.op = "unlock", !.pth = pth,
                                         !.readonly = readonly, !.pc = "ul_begin"]]
    /\ arrivals' = Without(arrivals, p)
    /\ torder' = DropWho(torder, p)
    /\ UNCHANGED <<mvars, treevars, tablevars, outR, outW>>
    /\ UNCHANGED repvars

\* mutant: the entry is counted down before it is looked up, a missing path
\* gets an entry with count -1
UnlockLookupCountFirst(table, pth) ==
    IF pth \in DOMAIN table
    THEN [exists |-> TRUE, item |-> table[pth].item,
          table |-> IF table[pth].count = 1 THEN MapDelete(table, pth)
                    ELSE [table EXCEPT ![pth].count = @ - 1]]
    ELSE [exists |-> FALSE, item |-> Nil,
          table |-> MapPut(table, pth, [item |-> Nil, count |-> 0 - 1])]

\* UnlockFileOrDirectory, shared: the lookup in rLockedItems and, when the
\* path is there, "entry.count--" and the delete at 0: [exists, item, table]
UnlockLookupShared(table, pth) ==
    IF pth \in DOMAIN table
    THEN [exists |-> TRUE, item |-> table[pth].item,
          table |-> IF table[pth].count = 1 THEN MapDelete(table, pth)
                    ELSE [table EXCEPT ![pth].count = @ - 1]]
    ELSE [exists |-> FALSE, item |-> Nil, table |-> table]

\* UnlockFileOrDirectory, exclusive: the lookup in wLockedItems and the delete
UnlockLookupExclusive(table, pth) ==
    IF pth \in DOMAIN table
    THEN [exists |-> TRUE, item |-> table[pth], table |-> MapDelete(table, pth)]
    ELSE [exists |-> FALSE, item |-> Nil, table |-> table]

\* UnlockFileOrDirectory up to the first release: the table's mutex, the
\* lookup; a path that is not there is answered IllegalArgument, the deferred
\* Unlock of the mutex runs
UnlockBegin(p) ==
    /\ h[p].pc = "ul_begin"
    /\ IF h[p].readonly
       THEN LET r == UnlockLookupShared(rLockedItems, h[p].pth) IN
            /\ rLockedItemsMtx = Nil
            /\ rLockedItems' = r.table
            /\ rLockedItemsMtx' = IF r.exists THEN p ELSE Nil
            /\ h' = [h EXCEPT ![p] =
                        IF r.exists THEN [@ EXCEPT !.item = r.item, !.pc = "ul_target"]
                        ELSE Respond(@, "IllegalArgumentException")]
            /\ UNCHANGED <<wLockedItems, wLockedItemsMtx>>
       ELSE LET r == UnlockLookupExclusive(wLockedItems, h[p].pth) IN
            /\ wLockedItemsMtx = Nil
            /\ wLockedItems' = r.table
            /\ wLockedItemsMtx' = IF r.exists THEN p ELSE Nil
            /\ h' = [h EXCEPT ![p] =
                        IF r.exists THEN [@ EXCEPT !.item = r.item, !.pc = "ul_target"]
                        ELSE Respond(@, "IllegalArgumentException")]
            /\ UNCHANGED <<rLockedItems, rLockedItemsMtx>>
    /\ UNCHANGED <<mvars, treevars, nops, histvars>>
    /\ UNCHANGED repvars

\* the end of a walk up the tree: unlockPath has reached nil. For /unlock the
\* deferred mutex Unlock runs and the handler answers 200; for a /lock that
\* found nothing the handler answers FileNotFound.
Unwound(p, hh) ==
    LET hr == hh[p] IN
    /\ h' = [hh EXCEPT ![p] =
                Respond(hr, IF hr.op = "unlock" THEN "ok" ELSE "FileNotFoundException")]
    /\ rLockedItemsMtx' = IF hr.op = "unlock" /\ hr.readonly THEN Nil ELSE rLockedItemsMtx
    /\ wLockedItemsMtx' = IF hr.op = "unlock" /\ ~hr.readonly THEN Nil ELSE wLockedItemsMtx
    /\ outR' = IF hr.op = "unlock" /\ hr.readonly
               THEN [outR EXCEPT ![hr.pth] = @ - 1] ELSE outR
    /\ outW' = IF hr.op = "unlock" /\ ~hr.readonly
               THEN [outW EXCEPT ![hr.pth] = @ - 1] ELSE outW

\* UnlockFileOrDirectory: fsItem.GetLock().RUnlock() or .Unlock(), then on to
\* unlockPath(parent)
UnlockTarget(p) ==
    LET n == h[p].item
        ev == TargetUnlock(lock[n], h[p].readonly)
        hh == Granted(nodes, h, ev.granted)
    IN
    /\ h[p].pc = "ul_target"
    /\ lock[n].alive
    /\ lock' = [lock EXCEPT ![n] = ev.m]
    /\ IF nodes[n].parent = Nil
       THEN Unwound(p, hh)
       ELSE /\ h' = [hh EXCEPT ![p].curr = nodes[n].parent, ![p].pc = "ul_unwind"]
            /\ UNCHANGED <<rLockedItemsMtx, wLockedItemsMtx, outR, outW>>
    /\ UNCHANGED <<mvars, nodes, rCountMtx, storageServers, sLock, rLockedItems,
                   wLockedItems, nops, arrivals, torder>>
    /\ UNCHANGED repvars

\* unlockPath: one "dir.lock.RUnlock(); dir = parent"
UnlockPathStep(p) ==
    LET n == h[p].curr
        ev == SchedRUnlock(lock[n])
        hh == Granted(nodes, h, ev.granted)
    IN
    /\ h[p].pc \in {"lk_unwind", "ul_unwind"}
    /\ lock[n].alive
    /\ lock' = [lock EXCEPT ![n] = ev.m]
    /\ IF nodes[n].parent = Nil
       THEN Unwound(p, hh)
       ELSE /\ h' = [hh EXCEPT ![p].curr = nodes[n].parent]
            /\ UNCHANGED <<rLockedItemsMtx, wLockedItemsMtx, outR, outW>>
    /\ UNCHANGED <<mvars, nodes, rCountMtx, storageServers, sLock, rLockedItems,
                   wLockedItems, nops, arrivals, torder>>
    /\ UNCHANGED repvars

\* ---------------------------------------------------------------- /register
\* a /register request arrives
StartRegister(p, server, files) ==
    /\ Free(p)
    /\ h' = [h EXCEPT ![p] = [Idle EXCEPT !.op = "register", !.server = server,
                                         !.out = files, !.pc = "rg_begin"]]
    /\ arrivals' = Without(arrivals, p)
    /\ torder' = DropWho(torder, p)
    /\ UNCHANGED <<mvars, treevars, tablevars, outR, outW>>
    /\ UNCHANGED repvars

\* registerStorageHandler: s.lock.Lock(), the duplicate check and the append.
\* A Lock() that has to wait keeps later RLock() calls out.
RegisterLockRegistry(p) ==
    /\ h[p].pc \in {"rg_begin", "rg_swait"}
    /\ IF SLockFree
       THEN IF AlreadyRegistered(storageServers, h[p].server)
            THEN /\ h' = [h EXCEPT ![p] = Respond([@ EXCEPT !.out = <<>>],
                                                   "IllegalStateException")]
                 /\ sLock' = [sLock EXCEPT !.waiting = @ \ {p}]
                 /\ UNCHANGED storageServers
            ELSE /\ h' = [h EXCEPT ![p].pc = "rg_lock"]
                 /\ sLock' = [sLock EXCEPT !.writer = p, !.waiting = @ \ {p}]
                 /\ storageServers' = Append(storageServers, h[p].server)
       ELSE /\ h[p].pc = "rg_begin"
            /\ h' = [h EXCEPT ![p].pc = "rg_swait"]
            /\ sLock' = [sLock EXCEPT !.waiting = @ \cup {p}]
            /\ UNCHANGED storageServers
    /\ UNCHANGED <<mvars, nodes, lock, rCountMtx, tablevars, nops, histvars>>
    /\ UNCHANGED repvars

\* RegisterFiles: d.lock.Lock()
RegisterLockRoot(p) ==
    /\ h[p].pc = "rg_lock"
    /\ LET ev == SchedWLock(lock[Root], p) IN
        /\ lock' = [lock EXCEPT ![Root] = ev.m]
        /\ h' = Granted(nodes, [h EXCEPT ![p].pc = "rg_wait"], ev.granted)
    /\ UNCHANGED <<mvars, nodes, rCountMtx, storageServers, sLock, tablevars, nops,
                   histvars>>
    /\ UNCHANGED repvars

\* mutant: the response lists the entries that were merged
NotRegisteredMerged(files, success) ==
    LET kept == {i \in 1..Len(files) : success[i]}
        nth(k) == CHOOSE i \in kept : Cardinality({x \in kept : x <= i}) = k
    IN  [k \in 1..Cardinality(kept) |-> files[nth(k)]]

\* the files of the response: the entries that were not registered
RECURSIVE NotRegistered(_, _)
NotRegistered(files, success) ==
    IF files = <<>> THEN <<>>
    ELSE (IF Head(success) THEN <<>> ELSE <<Head(files)>>)
         \o NotRegistered(Tail(files), Tail(success))

\* RegisterFiles under the root's lock, its deferred d.lock.Unlock(), the
\* response, the deferred s.lock.Unlock()
RegisterMerge(p) ==
    LET r == RegisterFiles(nodes, h[p].out, h[p].server)
        added == Len(r.nodes) - Len(nodes)
        ev == SchedWUnlock(lock[Root])
    IN
    /\ h[p].pc = "rg_merge"
    /\ Len(r.nodes) <= MaxNodes
    /\ nodes' = r.nodes
    /\ lock' = [lock EXCEPT ![Root] = ev.m] \o [i \in 1..added |-> NewFIFORWMutex]
    /\ rCountMtx' = rCountMtx \o [i \in 1..added |-> Nil]
    /\ h' = Granted(r.nodes,
                    [h EXCEPT ![p] = Respond([@ EXCEPT !.out = NotRegistered(@, r.success)],
                                             "ok")],
                    ev.granted)
    /\ sLock' = [sLock EXCEPT !.writer = Nil]
    /\ stored' = StorePut(stored, h[p].server,
                          {h[p].out[i] : i \in {k \in 1..Len(h[p].out) :
                                                   r.success[k] /\ h[p].out[k] # <<>>}})
    /\ UNCHANGED <<mvars, storageServers, tablevars, nops, histvars, reads, copied>>

\* RegisterFiles, one turn of "for i := range pths" under the root's lock:
\* entry j + 1 is merged or rejected; pending collects the indices of the
\* rejected entries. The goroutines that walk the tree without a lock see the
\* namespace between two turns.
RegisterEntry(p) ==
    LET i == h[p].j + 1
        one == RegisterOne(nodes, h[p].out[i], h[p].server)
        added == Len(one.nodes) - Len(nodes)
    IN
    /\ h[p].pc = "rg_merge"
    /\ h[p].j < Len(h[p].out)
    /\ Len(one.nodes) <= MaxNodes
    /\ nodes' = one.nodes
    /\ lock' = lock \o [k \in 1..added |-> NewFIFORWMutex]
    /\ rCountMtx' = rCountMtx \o [k \in 1..added |-> Nil]
    /\ h' = [h EXCEPT ![p].j = i,
                       ![p].pending = IF one.ok THEN @ ELSE @ \cup {i}]
    /\ UNCHANGED <<mvars, storageServers, sLock, tablevars, nops, histvars, repvars>>

\* RegisterFiles after its loop: the deferred d.lock.Unlock(), the response
\* of registerStorageHandler, the deferred s.lock.Unlock()
RegisterReturn(p) ==
    LET ev == SchedWUnlock(lock[Root])
        success == [i \in 1..Len(h[p].out) |-> i \notin h[p].pending]
    IN
    /\ h[p].pc = "rg_merge"
    /\ h[p].j = Len(h[p].out)
    /\ lock' = [lock EXCEPT ![Root] = ev.m]
    /\ h' = Granted(nodes,
                    [h EXCEPT ![p] = Respond([@ EXCEPT !.out = NotRegistered(@, success)],
                                             "ok")],
                    ev.granted)
    /\ sLock' = [sLock EXCEPT !.writer = Nil]
    /\ stored' = StorePut(stored, h[p].server,
                          {h[p].out[i] : i \in {k \in 1..Len(h[p].out) :
                                                   success[k] /\ h[p].out[k] # <<>>}})
    /\ UNCHANGED <<mvars, nodes, rCountMtx, storageServers, tablevars, nops, histvars,
                   reads, copied>>

\* ------------------------------------- /create_directory, /create_file
\* createDirectoryHandler: MakeDirectory and the response
CreateDirectory(p, pth) ==
    LET r == MakeDirectory(nodes, pth) IN
    /\ Free(p)
    /\ Len(r.nodes) <= MaxNodes
    /\ nodes' = r.nodes
    /\ lock' = IF r.ok THEN Append(lock, NewFIFORWMutex) ELSE lock
    /\ rCountMtx' = IF r.ok THEN Append(rCountMtx, Nil) ELSE rCountMtx
    /\ h' = [h EXCEPT ![p] =
                Respond([Idle EXCEPT !.op = "create_directory", !.pth = pth],
                        IF r.err # "none" THEN r.err
                        ELSE IF r.ok THEN "true" ELSE "false")]
    /\ arrivals' = Without(arrivals, p)
    /\ torder' = DropWho(torder, p)
    /\ UNCHANGED <<mvars, storageServers, sLock, tablevars, outR, outW>>
    /\ UNCHANGED repvars

\* mutant: success is answered whenever CreateFile returned no error
CreateFileAnswerNoError(r) ==
    IF r.err # "none" THEN r.err ELSE "true"

\* createFileHandler after CreateFile: the error, or "success := file != nil"
CreateFileAnswer(r) ==
    IF r.err # "none" THEN r.err
    ELSE IF r.file # Nil THEN "true" ELSE "false"

\* createFileHandler: a random registered server, CreateFile, the create
\* command (its failure is only printed) and the response
CreateFileRequest(p, pth) ==
    /\ Free(p)
    /\ SLockReadable
    /\ IF Len(storageServers) = 0
       THEN /\ h' = [h EXCEPT ![p] =
                        Respond([Idle EXCEPT !.op = "create_file", !.pth = pth],
                                "IllegalStateException")]
            /\ UNCHANGED <<nodes, lock, rCountMtx, stored>>
       ELSE \E idx \in 1..Len(storageServers), success \in BOOLEAN :
            LET r == CreateFile(nodes, pth, storageServers[idx]) IN
            /\ Len(r.nodes) <= MaxNodes
            /\ r.file = Nil => success
            /\ stored' = IF r.file = Nil THEN stored
                         ELSE StoreCommand(stored, success,
                                           StorePut(stored, storageServers[idx], {pth}))
            /\ nodes' = r.nodes
            /\ lock' = IF r.file # Nil THEN Append(lock, NewFIFORWMutex) ELSE lock
            /\ rCountMtx' = IF r.file # Nil THEN Append(rCountMtx, Nil) ELSE rCountMtx
            /\ h' = [h EXCEPT ![p] =
                        Respond([Idle EXCEPT !.op = "create_file", !.pth = pth,
                                             !.item = r.file],
                                CreateFileAnswer(r))]
    /\ arrivals' = Without(arrivals, p)
    /\ torder' = DropWho(torder, p)
    /\ UNCHANGED <<mvars, storageServers, sLock, tablevars, outR, outW, reads, copied>>

\* ------------------------------- /create_directory, /create_file, by steps
\* MakeDirectory and CreateFile take no lock, so the handlers of two requests
\* interleave between the name check, the load of the parent's slice by
\* append and the store of the new slice.

\* createDirectoryHandler up to the name check of MakeDirectory
CreateDirectoryCheck(p, pth) ==
    LET r == MakeDirectory(nodes, pth)
        hr == [Idle EXCEPT !.op = "create_directory", !.pth = pth]
    IN
    /\ Free(p)
    /\ h' = [h EXCEPT ![p] =
                IF r.err # "none" THEN Respond(hr, r.err)
                ELSE IF ~r.ok THEN Respond(hr, "false")
                ELSE [hr EXCEPT !.curr = walkPath(nodes, Front(pathToNames(pth))),
                                !.pc = "cr_load"]]
    /\ arrivals' = Without(arrivals, p)
    /\ torder' = DropWho(torder, p)
    /\ UNCHANGED <<mvars, treevars, tablevars, outR, outW>>
    /\ UNCHANGED repvars

\* createFileHandler up to the name check of CreateFile: the registry under
\* s.lock.RLock(), a random registered server
CreateFileCheck(p, pth) ==
    LET hr == [Idle EXCEPT !.op = "create_file", !.pth = pth] IN
    /\ Free(p)
    /\ SLockReadable
    /\ IF Len(storageServers) = 0
       THEN h' = [h EXCEPT ![p] = Respond(hr, "IllegalStateException")]
       ELSE \E idx \in 1..Len(storageServers) :
            LET r == CreateFile(nodes, pth, storageServers[idx]) IN
            h' = [h EXCEPT ![p] =
                    IF r.file = Nil THEN Respond(hr, CreateFileAnswer(r))
                    ELSE [hr EXCEPT !.curr = walkPath(nodes, Front(pathToNames(pth))),
                                    !.server = storageServers[idx],
                                    !.pc = "cr_load"]]
    /\ arrivals' = Without(arrivals, p)
    /\ torder' = DropWho(torder, p)
    /\ UNCHANGED <<mvars, treevars, tablevars, outR, outW>>
    /\ UNCHANGED repvars

\* "append(parent.subDirectories, newDir)" / "append(parent.subFiles,
\* newFile)": the slice is read
CreateLoad(p) ==
    /\ h[p].pc = "cr_load"
    /\ h' = [h EXCEPT ![p].out = IF h[p].op = "create_directory"
                                  THEN nodes[h[p].curr].subDirectories
                                  ELSE nodes[h[p].curr].subFiles,
                      ![p].pc = "cr_store"]
    /\ UNCHANGED <<mvars, treevars, tablevars, nops, histvars>>
    /\ UNCHANGED repvars

\* "parent.subDirectories = ..." / "parent.subFiles = ...": the slice that was
\* read, with the new node appended, is stored; then the create command of a
\* file (its failure is only printed) and the response
CreateStore(p) ==
    LET parent == h[p].curr
        new == Len(nodes) + 1
        children == Append(h[p].out, new)
        name == Last(h[p].pth)
    IN
    /\ h[p].pc = "cr_store"
    /\ new <= MaxNodes
    /\ IF h[p].op = "create_directory"
       THEN /\ nodes' = Append([nodes EXCEPT ![parent].subDirectories = children],
                               NewDirectory(name, parent))
            /\ UNCHANGED stored
       ELSE /\ nodes' = Append([nodes EXCEPT ![parent].subFiles = children],
                               NewFileInfo(name, h[p].pth, parent, h[p].server))
            /\ \E success \in BOOLEAN :
                 stored' = StoreCommand(stored, success,
                                        StorePut(stored, h[p].server, {h[p].pth}))
    /\ lock' = Append(lock, NewFIFORWMutex)
    /\ rCountMtx' = Append(rCountMtx, Nil)
    /\ h' = [h EXCEPT ![p] = Respond([@ EXCEPT !.item = new], "true")]
    /\ UNCHANGED <<mvars, storageServers, sLock, tablevars, nops, histvars, reads, copied>>

\* ----------------------------------------------------------- /is_valid_path
\* isValidPathHandler: PathExists without any lock, its error dropped, always
\* a SuccessResponse
IsValidPathRequest(p, pth) ==
    LET r == PathExists(nodes, pth) IN
    /\ Free(p)
    /\ h' = [h EXCEPT ![p] =
                Respond([Idle EXCEPT !.op = "is_valid_path", !.pth = pth],
                        IF r.foundDir \/ r.foundFile THEN "true" ELSE "false")]
    /\ arrivals' = Without(arrivals, p)
    /\ torder' = DropWho(torder, p)
    /\ UNCHANGED <<mvars, treevars, tablevars, outR, outW>>
    /\ UNCHANGED repvars

\* ------------------------------------------------------------------ /delete
\* mutant: the first replica of the deleted file gets no delete command
DeleteTargetsTail(file) == Range(Tail(file.storageServers))

\* deleteHandler, file: "for _, storageServer := range
\* deletedFile.storageServers": the servers that get a delete command
DeleteTargets(file) == Range(file.storageServers)

\* deleteHandler up to wg.Wait(): DeletePath (it destroys the lock of what it
\* removes), then one delete command per replica of a file; for a directory
\* the handler goes on to s.lock.RLock()
DeleteRequest(p, pth) ==
    LET r == DeletePath(nodes, pth)
        hr == [Idle EXCEPT !.op = "delete", !.pth = pth, !.item = r.item]
    IN
    /\ Free(p)
    /\ nodes' = r.nodes
    /\ lock' = [n \in DOMAIN lock |->
                    IF n \in r.destroyed THEN SchedQuit(lock[n]) ELSE lock[n]]
    /\ h' = [h EXCEPT ![p] =
                IF r.err # "none" THEN Respond(hr, r.err)
                ELSE IF r.item = Nil THEN Respond(hr, "false")
                ELSE IF nodes[r.item].kind = "file"
                THEN [hr EXCEPT !.pending = DeleteTargets(nodes[r.item]),
                                !.pc = "dl_wait"]
                ELSE [hr EXCEPT !.pc = "dl_rlock"]]
    /\ arrivals' = Without(arrivals, p)
    /\ torder' = DropWho(torder, p)
    /\ UNCHANGED <<mvars, rCountMtx, storageServers, sLock, tablevars, outR, outW>>
    /\ UNCHANGED repvars

\* deleteHandler, directory: s.lock.RLock() and one delete command, with the
\* directory's path, per registered server
DeleteDirCommands(p) ==
    /\ h[p].pc = "dl_rlock"
    /\ SLockReadable
    /\ sLock' = [sLock EXCEPT !.readers = @ \cup {p}]
    /\ h' = [h EXCEPT ![p].pending = Range(storageServers), ![p].pc = "dl_wait"]
    /\ UNCHANGED <<mvars, nodes, lock, rCountMtx, storageServers, tablevars, nops,
                   histvars>>
    /\ UNCHANGED repvars

\* deleteHandler: wg.Wait() returns, the deferred s.lock.RUnlock() runs, the
\* handler answers success
DeleteWaited(p) ==
    /\ h[p].pc = "dl_wait"
    /\ WaitGroupWait(h[p].pending)
    /\ sLock' = [sLock EXCEPT !.readers = @ \ {p}]
    /\ h' = [h EXCEPT ![p] = Respond(@, "true")]
    /\ UNCHANGED <<mvars, nodes, lock, rCountMtx, storageServers, tablevars, nops,
                   histvars>>
    /\ UNCHANGED repvars

\* ------------------------------------------------------------- /get_storage
\* GetFileStorage: [file, err]
GetFileStorage(ns, pth) ==
    LET names == pathToNames(pth)
        parent == walkPath(ns, Front(names))
        file == IF parent = Nil THEN Nil
                ELSE FindByName(ns, ns[parent].subFiles, Last(names))
    IN  IF Len(names) = 0 THEN [file |-> Nil, err |-> "IllegalArgumentException"]
        ELSE IF file = Nil THEN [file |-> Nil, err |-> "FileNotFoundException"]
        ELSE [file |-> file, err |-> "none"]

\* getStorageHandler up to file.rCountMtx.Lock(): the file is resolved by
\* walkPath, without any lock
GetStorageRequest(p, pth) ==
    LET r == GetFileStorage(nodes, pth)
        hr == [Idle EXCEPT !.op = "get_storage", !.pth = pth, !.item = r.file]
    IN
    /\ Free(p)
    /\ h' = [h EXCEPT ![p] = IF r.file = Nil THEN Respond(hr, r.err)
                             ELSE [hr EXCEPT !.pc = "gs_lock"]]
    /\ arrivals' = Without(arrivals, p)
    /\ torder' = DropWho(torder, p)
    /\ UNCHANGED <<mvars, treevars, tablevars, outR, outW, repvars>>

\* GetFileStorage under rCountMtx: the answer is a random server of
\* file.storageServers
GetStorageRead(p) ==
    LET f == h[p].item IN
    /\ h[p].pc = "gs_lock"
    /\ rCountMtx[f] = Nil
    /\ \E i \in 1..Len(nodes[f].storageServers) :
         h' = [h EXCEPT ![p] =
                  Respond([@ EXCEPT !.server = nodes[f].storageServers[i]], "server")]
    /\ UNCHANGED <<mvars, treevars, tablevars, nops, histvars, repvars>>

\* ------------------------------------------------------ the specifications
\* the steps of the /lock and /unlock handlers, without the replication
LockingStep(p) ==
    \/ LockPathRLock(p)
    \/ LockTarget(p)
    \/ LockTable(p)
    \/ LockReplicate(p)
    \/ UnlockBegin(p)
    \/ UnlockTarget(p)
    \/ UnlockPathStep(p)

\* the steps of the /register handler
RegisterStep(p) ==
    \/ RegisterLockRegistry(p)
    \/ RegisterLockRoot(p)
    \/ RegisterMerge(p)

\* the steps of the /delete handler and of its delete commands
DeleteStep(p) ==
    \/ DeleteDirCommands(p)
    \/ DeleteWaited(p)
    \/ \E server \in Servers, success \in BOOLEAN : DeleteCommandDone(p, server, success)

\* the paths and file lists of the requests of Spec: "/" and "/d"
NsPaths == {<<>>, <<"d">>}

NsRegisterLists == {<<>>, <<<<"d">>>>}

\* Spec: the naming server under any requests of any clients
Next ==
    \/ /\ nops < MaxOps
       /\ nops' = nops + 1
       /\ \E p \in Procs :
            \/ \E pth \in NsPaths, readonly \in BOOLEAN : StartLock(p, pth, readonly)
            \/ \E pth \in NsPaths, readonly \in BOOLEAN : StartUnlock(p, pth, readonly)
            \/ \E server \in Servers, files \in NsRegisterLists :
                   StartRegister(p, server, files)
            \/ \E pth \in NsPaths : CreateDirectory(p, pth)
            \/ \E pth \in NsPaths : CreateFileRequest(p, pth)
            \/ \E pth \in NsPaths : DeleteRequest(p, pth)
    \/ \E p \in Procs : LockingStep(p) \/ RegisterStep(p) \/ DeleteStep(p)

\* ------------------------------------------ clients that follow the protocol
\* the client of goroutine p holds a path lock: its last /lock was answered 200
\* and it has not called /unlock since
Holding(p) == h[p].pc = "done" /\ h[p].op = "lock" /\ h[p].resp = "ok"

\* the files of the storage server of SpecLock: "/d/f"
LockFiles == <<<<"d", "f">>>>

\* the first request of SpecLock: a storage server registers with "/d/f"
ClientRegister(p) ==
    /\ nops = 0
    /\ nops' = nops + 1
    /\ \E server \in Servers : StartRegister(p, server, LockFiles)

\* a client that holds nothing calls /lock
ClientLock(p, pth, readonly) ==
    /\ nops < MaxLockOps
    /\ nops' = nops + 1
    /\ ~Holding(p)
    /\ StartLock(p, pth, readonly)

\* a client that holds a lock calls the matching /unlock
ClientUnlock(p) ==
    /\ Holding(p)
    /\ StartUnlock(p, h[p].pth, h[p].readonly)
    /\ UNCHANGED nops

\* SpecLock: /lock and /unlock by clients that hold at most one lock each
NextLock ==
    \/ \E p \in Procs : ClientRegister(p)
    \/ \E p \in Procs, pth \in ReqPaths, readonly \in BOOLEAN : ClientLock(p, pth, readonly)
    \/ \E p \in Procs : ClientUnlock(p)
    \/ \E p \in Procs : LockingStep(p)
    \/ \E p \in Procs : RegisterStep(p)

\* ------------------------------------------------------------- replication
\* the steps of lockHandler's replication part that need a second replica or
\* the threshold
ReplicationStep(p) ==
    \/ LockCandidates(p)
    \/ \E success \in BOOLEAN : CopyCommandDone(p, success)
    \/ LockCopied(p)
    \/ LockWaited(p)

\* the file of SpecRepl, "/d/f", and its directory
ReplFile == <<"d", "f">>

ReplDir == <<"d">>

\* no request is in progress
Quiet == \A q \in Procs : Free(q)

\* a client that holds no lock calls /get_storage, whatever the other
\* handlers are doing
ClientGetStorage(p, pth) ==
    /\ ~Holding(p)
    /\ GetStorageRequest(p, pth)
    /\ UNCHANGED nops

\* SpecRepl: clients that hold at most one lock read and write one file often
\* enough to replicate it; /get_storage runs beside any other handler, the
\* other requests one at a time; the first server registers with the file, the
\* others with nothing
NextRepl ==
    \/ /\ Quiet
       /\ UNCHANGED nops
       /\ \E p \in Procs :
            \/ Holding(p) /\ StartUnlock(p, h[p].pth, h[p].readonly)
            \/ /\ ~Holding(p)
               /\ \/ \E server \in Servers :
                       StartRegister(p, server, IF server = 1 THEN <<ReplFile>> ELSE <<>>)
                  \/ \E readonly \in BOOLEAN : StartLock(p, ReplFile, readonly)
                  \/ \E pth \in {ReplFile, ReplDir} : DeleteRequest(p, pth)
    \/ \E p \in Procs : ClientGetStorage(p, ReplFile)
    \/ \E p \in Procs : GetStorageRead(p)
    \/ \E p \in Procs : LockingStep(p)
    \/ \E p \in Procs : ReplicationStep(p)
    \/ \E p \in Procs : RegisterStep(p)
    \/ \E p \in Procs : DeleteStep(p)

\* SpecRegistry: clients that hold at most one lock read and write one file
\* again and again, each releasing what it was granted, while storage servers
\* register at any moment; the first server registers with the file, the others with
\* nothing
NextRegistry ==
    \/ /\ UNCHANGED nops
       /\ \E p \in Procs :
            \/ Holding(p) /\ StartUnlock(p, h[p].pth, h[p].readonly)
            \/ ~Holding(p) /\ \E readonly \in BOOLEAN : StartLock(p, ReplFile, readonly)
            \/ /\ ~Holding(p)
               /\ \E server \in Servers :
                    StartRegister(p, server, IF server = 1 THEN <<ReplFile>> ELSE <<>>)
    \/ \E p \in Procs : LockingStep(p)
    \/ \E p \in Procs : ReplicationStep(p)
    \/ \E p \in Procs, server \in Servers, success \in BOOLEAN :
            DeleteCommandDone(p, server, success)
    \/ \E p \in Procs : RegisterStep(p)

\* the client of SpecTwoLocks that takes two shared locks
Reader == CHOOSE p \in Procs : \A q \in Procs : p <= q

\* the reader's first shared /lock, after the registration
ReaderFirstLock(pth) ==
    /\ nops = 1
    /\ nops' = nops + 1
    /\ h[Reader].pc = "idle"
    /\ StartLock(Reader, pth, TRUE)

\* the reader holds its first lock and calls /lock, shared, for another path
ReaderSecondLock(pth) ==
    /\ nops = 2
    /\ nops' = nops + 1
    /\ Holding(Reader)
    /\ pth # h[Reader].pth
    /\ StartLock(Reader, pth, TRUE)

\* the reader releases the lock it was granted last
ReaderUnlockSecond ==
    /\ nops = 3
    /\ nops' = nops + 1
    /\ Holding(Reader)
    /\ StartUnlock(Reader, h[Reader].pth, TRUE)

\* the reader releases its first lock, the path it still has in rLockedItems
ReaderUnlockFirst ==
    /\ nops = 4
    /\ nops' = nops + 1
    /\ \E pth \in DOMAIN rLockedItems : StartUnlock(Reader, pth, TRUE)

\* another client, holding nothing, calls /lock for an exclusive lock
WriterLock(p, pth) ==
    /\ nops >= 1
    /\ p # Reader
    /\ ~Holding(p)
    /\ StartLock(p, pth, FALSE)
    /\ UNCHANGED nops

\* SpecTwoLocks: after the registration of "/d/f" one client takes a shared
\* lock, then a second one on another path, and releases both; the other
\* clients take exclusive locks, one at a time, and release them
NextTwoLocks ==
    \/ \E p \in Procs : ClientRegister(p)
    \/ \E pth \in ReqPaths : ReaderFirstLock(pth)
    \/ \E pth \in ReqPaths : ReaderSecondLock(pth)
    \/ ReaderUnlockSecond
    \/ ReaderUnlockFirst
    \/ \E p \in Procs, pth \in ReqPaths : WriterLock(p, pth)
    \/ \E p \in Procs \ {Reader} : ClientUnlock(p)
    \/ \E p \in Procs : LockingStep(p)
    \/ \E p \in Procs : RegisterStep(p)

\* a client that holds the exclusive lock of the parent directory, as the
\* interface asks, calls /delete
ClientDelete(p, pth) ==
    /\ pth # <<>>
    /\ Holding(p) /\ ~h[p].readonly /\ h[p].pth = Front(pth)
    /\ DeleteRequest(p, pth)
    /\ UNCHANGED nops

\* the client whose /delete was answered releases the parent's exclusive lock
DeleterUnlock(p) ==
    /\ h[p].pc = "done" /\ h[p].op = "delete"
    /\ StartUnlock(p, Front(h[p].pth), FALSE)
    /\ UNCHANGED nops

\* SpecDelete: /lock, /unlock and /delete by clients that hold at most one
\* lock each, after the registration of "/d/f"
NextDelete ==
    \/ \E p \in Procs : ClientRegister(p)
    \/ \E p \in Procs, pth \in ReqPaths, readonly \in BOOLEAN : ClientLock(p, pth, readonly)
    \/ \E p \in Procs : ClientUnlock(p)
    \/ \E p \in Procs, pth \in ReqPaths : ClientDelete(p, pth)
    \/ \E p \in Procs : DeleterUnlock(p)
    \/ \E p \in Procs : LockingStep(p)
    \/ \E p \in Procs : RegisterStep(p)
    \/ \E p \in Procs : DeleteStep(p)

\* ------------------------------------------------------------ the namespace
\* the paths of the requests of SpecTree: "/", "/d", "/f", "/d/f"
TreePaths == {<<>>, <<"d">>, <<"f">>, <<"d", "f">>}

\* SpecCreate: /create_directory and /create_file for "/d" and "/d/f" by
\* concurrent clients, with storage servers that register with no files
NextCreate ==
    \/ /\ UNCHANGED nops
       /\ \E p \in Procs :
            \/ \E pth \in {ReplDir, ReplFile} : CreateDirectoryCheck(p, pth)
            \/ \E pth \in {ReplDir, ReplFile} : CreateFileCheck(p, pth)
            \/ \E server \in Servers : StartRegister(p, server, <<>>)
    \/ \E p \in Procs : CreateLoad(p)
    \/ \E p \in Procs : CreateStore(p)
    \/ \E p \in Procs : RegisterStep(p)

\* the file lists of the storage servers of SpecTree: one file, a file and a
\* file below it in both orders, a file twice, and "/" with a file
TreeRegisterLists ==
    {<<<<"d", "f">>>>,
     <<<<"d">>, <<"d", "f">>>>, <<<<"d", "f">>, <<"d">>>>,
     <<<<"d", "f">>, <<"d", "f">>>>,
     <<<<>>, <<"f">>>>}

\* the goroutine of the requests of SpecTree, which come one after the other
TreeProc == 1

\* SpecTree: the operations on the namespace, one request at a time and each
\* run to completion
NextTree ==
    \/ /\ Quiet
       /\ UNCHANGED nops
       /\ \/ \E server \in Servers, files \in TreeRegisterLists :
                StartRegister(TreeProc, server, files)
          \/ \E pth \in TreePaths : CreateDirectory(TreeProc, pth)
          \/ \E pth \in TreePaths : CreateFileRequest(TreeProc, pth)
          \/ \E pth \in TreePaths : DeleteRequest(TreeProc, pth)
          \/ \E pth \in TreePaths : IsValidPathRequest(TreeProc, pth)
    \/ RegisterStep(TreeProc)
    \/ DeleteStep(TreeProc)

\* the file lists and the paths of SpecQuery
QueryRegisterLists == {<<<<"d">>, <<"f">>>>, <<<<"d", "f">>, <<"f">>>>}

\* SpecQuery: /register, its loop taken one entry at a time, and
\* /is_valid_path, by goroutines that run concurrently
NextQuery ==
    \/ /\ UNCHANGED nops
       /\ \/ \E p \in Procs, server \in Servers, files \in QueryRegisterLists :
                StartRegister(p, server, files)
          \/ \E p \in Procs, pth \in TreePaths : IsValidPathRequest(p, pth)
    \/ \E p \in Procs : RegisterLockRegistry(p)
    \/ \E p \in Procs : RegisterLockRoot(p)
    \/ \E p \in Procs : RegisterEntry(p)
    \/ \E p \in Procs : RegisterReturn(p)

Init == InitMutex /\ InitNaming

SpecMutex == Init /\ [][NextMutex]_vars

Spec == Init /\ [][Next]_vars

SpecLock == Init /\ [][NextLock]_vars

SpecRepl == Init /\ [][NextRepl]_vars

SpecTree == Init /\ [][NextTree]_vars

SpecQuery == Init /\ [][NextQuery]_vars

SpecRegistry == Init /\ [][NextRegistry]_vars

SpecTwoLocks == Init /\ [][NextTwoLocks]_vars

SpecDelete == Init /\ [][NextDelete]_vars

SpecCreate == Init /\ [][NextCreate]_vars

SpecMutexDestroy == Init /\ [][NextMutexDestroy]_vars

\* The scheduler's select serves every ready channel again and again, quit
\* included, for as long as its goroutine runs, and every holder releases.
FairSpecMutexDestroy ==
    /\ SpecMutexDestroy
    /\ \A c \in Clients :
        /\ WF_vars(MRecvRLock(c))
        /\ WF_vars(MRecvLock(c))
        /\ WF_vars(MRUnlock(c))
        /\ WF_vars(MUnlock(c))
        /\ WF_vars(MRecvQuit(c))

\* Every handler goroutine runs on, every scheduler serves its channels, and a
\* client that holds a lock calls /unlock.
FairSpecLock ==
    /\ SpecLock
    /\ \A p \in Procs :
        /\ WF_vars(LockingStep(p))
        /\ WF_vars(RegisterStep(p))
        /\ WF_vars(ClientUnlock(p))

\* Every handler goroutine runs on, every scheduler serves its channels, and
\* every client but the reader calls /unlock for the lock it holds.
FairSpecTwoLocks ==
    /\ SpecTwoLocks
    /\ \A p \in Procs :
        /\ WF_vars(LockingStep(p))
        /\ WF_vars(RegisterStep(p))
        /\ WF_vars(p # Reader /\ ClientUnlock(p))

\* The scheduler's select serves every ready channel again and again, and
\* every holder releases: weak fairness of the receives and of the unlocks.
FairSpecMutex ==
    /\ SpecMutex
    /\ \A c \in Clients :
        /\ WF_vars(MRecvRLock(c))
        /\ WF_vars(MRecvLock(c))
        /\ WF_vars(MRUnlock(c))
        /\ WF_vars(MUnlock(c))

\* C1: on one FIFORWMutex no request holds the lock while a request that the
\* scheduler received earlier is still waiting (strict FIFO admission over
\* mixed RLock and Lock requests).
MutexFIFO ==
    \A i, j \in 1..Len(morder) :
        (i < j /\ mst[morder[j]] \in MHolding) => mst[morder[i]] \in MHolding

\* C1 witness: reader A holds, writer W is queued, reader R arrived after W and
\* is queued behind it.
MutexFIFOWitness ==
    /\ Len(morder) = 3
    /\ mst[morder[1]] = "holdR"
    /\ mst[morder[2]] = "waitW"
    /\ mst[morder[3]] = "waitR"

\* C2: at most one writer holds the mutex and never together with a reader;
\* the scheduler's writing flag and reader count say the same.
MutexExclusion ==
    LET readers == {c \in Clients : mst[c] = "holdR"}
        writers == {c \in Clients : mst[c] = "holdW"}
    IN  /\ Cardinality(writers) <= 1
        /\ (writers # {} => readers = {})
        /\ (mu.writing => mu.nReading = 0)
        /\ (mu.nReading > 0 => ~mu.writing)
        /\ mu.nReading = Cardinality(readers)
        /\ mu.writing = (writers # {})

\* C2 witness: a writer holds while a reader and another writer wait.
MutexExclusionWitness ==
    /\ \E c \in Clients : mst[c] = "holdW"
    /\ \E c \in Clients : mst[c] = "waitR"
    /\ \E c \in Clients : mst[c] = "waitW"

\* C3: every RLock and every Lock request is eventually granted, when every
\* granted lock is eventually released.
MutexLiveness ==
    \A c \in Clients : (mst[c] \in MWaiting) ~> (mst[c] \in MHolding)

\* C3 witness: a writer waits in the queue while two readers hold the lock.
MutexLivenessWitness ==
    /\ \E c \in Clients : mst[c] = "waitW"
    /\ Cardinality({c \in Clients : mst[c] = "holdR"}) >= 2

\* the pcs of lockHandler after the target's lock was granted
LockAdmittedPcs == {"lk_table", "lk_repl", "lk_cand", "lk_copy", "lk_copied", "lk_wait"}

\* the pcs of lockHandler and unlockHandler
LockingPcs ==
    {"lk_rlock", "lk_rwait", "lk_tlock", "lk_twait", "lk_unwind", "ul_begin", "ul_target",
     "ul_unwind"} \cup LockAdmittedPcs

\* the /lock of p has been granted on its path and the client has not called
\* the matching /unlock
LockGranted(p) == Holding(p) \/ (h[p].op = "lock" /\ h[p].pc \in LockAdmittedPcs)

LockReturns ==
    \A p \in Procs :
        (h[p].op = "lock" /\ h[p].pc # "done") ~> (h[p].pc = "done")

\* C5 witness: a /lock on the existing path "/d/f" waits for the read lock of
\* "/d", which another client holds exclusively.
LockReturnsWitness ==
    \E p, q \in Procs :
        /\ Holding(q) /\ h[q].pth = <<"d">> /\ ~h[q].readonly
        /\ h[p].op = "lock" /\ h[p].pth = <<"d", "f">> /\ h[p].pc = "lk_rwait"

\* C6 as stated: of two /lock requests on the same path, the one that arrived
\* at the naming server later is not granted while the earlier one still walks
\* or waits.
ArrivalFIFO ==
    \A i, j \in 1..Len(arrivals) :
        LET r1 == h[arrivals[i]]
            r2 == h[arrivals[j]]
        IN  (i < j /\ r1.pth = r2.pth /\ LockGranted(arrivals[j]))
                => r1.pc \notin {"lk_rlock", "lk_rwait", "lk_tlock", "lk_twait"}

\* C6 amended: of two /lock requests for the same node, the one whose request
\* the node's mutex received later is not granted while the earlier one still
\* waits; the order of arrival at the naming server is not kept.
TargetFIFO ==
    \A i, j \in 1..Len(torder) :
        (/\ i < j
         /\ torder[i].item = torder[j].item
         /\ h[torder[j].who].pc # "lk_twait")
            => h[torder[i].who].pc # "lk_twait"

\* C6 witness: the mutex of a node received two /lock requests; the first is
\* granted and held, the second, of the other mode, waits.
TargetFIFOWitness ==
    /\ Len(torder) = 2
    /\ torder[1].item = torder[2].item
    /\ Holding(torder[1].who)
    /\ h[torder[2].who].pc = "lk_twait"
    /\ h[torder[1].who].readonly # h[torder[2].who].readonly

\* no /lock or /unlock handler is mid-execution
LockQuiescent == \A p \in Procs : h[p].pc \notin LockingPcs

\* C7: when no /lock or /unlock handler is mid-execution, a path is in the
\* read-lock table with count k > 0 iff k granted shared locks on it are not
\* unlocked, and in the write-lock table iff exactly one granted exclusive
\* lock on it is not unlocked.
TableConsistency ==
    LockQuiescent =>
        \A pth \in ReqPaths :
            /\ outR[pth] = (IF pth \in DOMAIN rLockedItems THEN rLockedItems[pth].count ELSE 0)
            /\ outR[pth] >= 0
            /\ outW[pth] = (IF pth \in DOMAIN wLockedItems THEN 1 ELSE 0)

\* the path of p's /unlock is in the lock table of the mode of the request
InLockTable(p) ==
    IF h[p].readonly THEN h[p].pth \in DOMAIN rLockedItems
    ELSE h[p].pth \in DOMAIN wLockedItems

\* C8: a /unlock on a path that is not in the lock table of its mode is
\* answered IllegalArgumentException and changes neither lock table nor any
\* node's mutex.
UnlockAbsentFails ==
    [][\A p \in Procs :
         (h[p].pc = "ul_begin" /\ h'[p].pc # "ul_begin" /\ ~InLockTable(p))
            => /\ h'[p].pc = "done"
               /\ h'[p].resp = "IllegalArgumentException"
               /\ UNCHANGED <<tablevars, lock, nodes, rCountMtx>>]_vars

\* C8 witness: /unlock(shared) is about to look up a path that is locked in
\* exclusive mode only.
UnlockAbsentFailsWitness ==
    \E p \in Procs :
        /\ h[p].pc = "ul_begin" /\ h[p].readonly
        /\ h[p].pth \notin DOMAIN rLockedItems
        /\ h[p].pth \in DOMAIN wLockedItems

\* C9 as stated: while a client holds the exclusive lock of a file, the file's
\* rCount is 0 and its replica list has exactly one server.
WriteInvalidation ==
    \A p \in Procs :
        LET r == GetFileStorage(nodes, h[p].pth) IN
        (Holding(p) /\ ~h[p].readonly /\ r.file # Nil)
            => /\ nodes[r.file].rCount = 0
               /\ Len(nodes[r.file].storageServers) = 1

\* C10: lockHandler and deleteHandler answer after a fan-out of delete
\* commands only when every command has ended, and the answer is the success
\* answer whether or not a command failed.
FanOutWaits ==
    [][\A p \in Procs :
         (h[p].pc \in {"dl_wait", "lk_wait"} /\ h'[p].pc = "done")
            => /\ h[p].pending = {}
               /\ h'[p].resp = (IF h[p].pc = "dl_wait" THEN "true" ELSE "ok")]_vars

\* C10 witness: an exclusive /lock on a replicated file has waited for its
\* delete command, which failed, and is about to answer.
FanOutWaitsWitness ==
    \E p \in Procs :
        /\ h[p].pc = "lk_wait" /\ h[p].pending = {} /\ h[p].failed

\* the registered servers that are not replicas of file f
Candidates(f) == Range(storageServers) \ Range(nodes[f].storageServers)

\* C11: counting the shared /lock calls on a file since its creation or its
\* last exclusive lock (reads), the handler goes on to replicate during every
\* 20th call and during no other, and never in an exclusive call; it then
\* issues a copy command iff some registered server is not a replica, with a
\* registered non-replica as destination and a replica as source; when the
\* copy succeeds the destination is appended to the replica list.
ReplicationThresholdRule ==
    [][\A p \in Procs :
         LET f == h[p].item IN
         /\ (h[p].pc = "lk_repl" /\ h'[p].pc # "lk_repl")
               => ((h'[p].pc = "lk_cand")
                     <=> (h[p].readonly /\ reads'[f] % ReplicationThreshold = 0))
         /\ (h[p].pc # "lk_copy" /\ h'[p].pc = "lk_copy")
               => /\ h[p].pc = "lk_cand"
                  /\ h'[p].dst \in Candidates(f)
                  /\ h'[p].server \in Range(nodes[f].storageServers)
         /\ (h[p].pc = "lk_cand" /\ h'[p].pc # "lk_cand")
               => ((h'[p].pc = "lk_copy") <=> (Candidates(f) # {}))
         /\ (h[p].pc = "lk_copied" /\ h'[p].pc # "lk_copied" /\ ~h[p].failed)
               => nodes'[f].storageServers = Append(nodes[f].storageServers, h[p].dst)]_vars

\* C11 witness: the first copy failed, and the 40th shared /lock on the file
\* has issued a copy command again.
ReplicationThresholdWitness ==
    \E p \in Procs :
        /\ h[p].pc = "lk_copy"
        /\ reads[h[p].item] = 0
        /\ Len(nodes[h[p].item].storageServers) = 1

\* C12: when the copy command of a shared /lock has failed, the handler leaves
\* the file (replica list and read count) as it is, answers 200 with the lock
\* held and in the read-lock table, and ends without another copy; the read
\* count is below the threshold.
CopyFailureKeepsReplicas ==
    [][\A p \in Procs :
         LET f == h[p].item IN
         (h[p].pc = "lk_copied" /\ h'[p].pc # "lk_copied" /\ h[p].failed)
            => /\ nodes'[f] = nodes[f]
               /\ ~ThresholdReached(nodes[f].rCount)
               /\ h'[p].pc = "done"
               /\ h'[p].resp = "ok"
               /\ h'[p].op = "lock" /\ h'[p].pth = h[p].pth /\ h'[p].readonly
               /\ lock'[f].nReading >= 1
               /\ h[p].pth \in DOMAIN rLockedItems']_vars

\* C12 witness: a /lock was answered 200 after its copy command failed: the
\* file has been read 20 times and still has one replica, though a second
\* server is registered.
CopyFailureWitness ==
    \E p \in Procs :
        /\ Holding(p)
        /\ h[p].readonly
        /\ \E f \in 1..Len(nodes) :
              /\ nodes[f].path = h[p].pth
              /\ reads[f] = ReplicationThreshold
              /\ Len(nodes[f].storageServers) = 1
              /\ Candidates(f) # {}

\* C13: the server that /get_storage returns for a file is the server the
\* file was created or registered with, or a replication destination whose
\* copy command has returned success.
GetStorageAfterCopy ==
    [][\A q \in Procs :
         (h[q].pc = "gs_lock" /\ h'[q].pc = "done")
            => \/ h'[q].server = Head(nodes[h[q].item].storageServers)
               \/ h'[q].server \in copied[h[q].item]]_vars

\* C13 witness: a /get_storage handler has resolved the file and is about to
\* read its replicas while the copy command of a /lock handler on the same
\* file has not returned.
GetStorageAfterCopyWitness ==
    \E p, q \in Procs :
        /\ h[p].pc = "lk_copy"
        /\ h[q].pc = "gs_lock"
        /\ h[q].item = h[p].item

\* the children of directory d, sub-directories and files
Children(ns, d) == Range(ns[d].subDirectories) \cup Range(ns[d].subFiles)

\* the nodes that are reachable from the nodes of seen by child lists
RECURSIVE ReachableFrom(_, _)
ReachableFrom(ns, seen) ==
    LET more == UNION {Children(ns, d) : d \in seen} \ seen IN
    IF more = {} THEN seen ELSE ReachableFrom(ns, seen \cup more)

\* the namespace: the nodes reachable from the root
Namespace(ns) == ReachableFrom(ns, {Root})

\* the files of the namespace
Files(ns) == {n \in Namespace(ns) : ns[n].kind = "file"}

\* C14: every file of the namespace has at least one storage server in its
\* replica list, in every reachable state.
ReplicaNonEmpty == \A f \in Files(nodes) : Len(nodes[f].storageServers) >= 1

\* C14 witness: a client holds the exclusive lock of a file of the namespace.
ReplicaNonEmptyWitness ==
    \E p \in Procs, f \in Files(nodes) :
        /\ Holding(p)
        /\ ~h[p].readonly
        /\ GetPath(nodes, f) = h[p].pth

\* C15 as stated: when no handler is in progress and no storage command has
\* failed, every server in the replica list of a file of the namespace holds
\* the file.
ReplicasHoldBytes ==
    (Quiet /\ stored.ok) =>
        \A f \in Files(nodes) :
            \A server \in Range(nodes[f].storageServers) :
                nodes[f].path \in stored.at[server]

\* the children of directory d in the order of its two lists
ChildList(ns, d) == ns[d].subDirectories \o ns[d].subFiles

\* C16: no directory of the namespace has two children, sub-directories and
\* files taken together, with the same name.
PathUnique ==
    \A d \in Namespace(nodes) :
        \A i, j \in 1..Len(ChildList(nodes, d)) :
            i # j => nodes[ChildList(nodes, d)[i]].name # nodes[ChildList(nodes, d)[j]].name

\* C16 witness: a name of the root was deleted as a node of one kind and
\* created again as a node of the other kind.
PathUniqueWitness ==
    /\ Quiet
    /\ \E n \in Namespace(nodes), g \in (1..Len(nodes)) \ Namespace(nodes) :
          /\ nodes[n].parent = Root
          /\ nodes[g].parent = Root
          /\ nodes[n].name = nodes[g].name
          /\ nodes[n].kind # nodes[g].kind

\* C17: the root has no parent, and every other node of the namespace has a
\* parent whose child lists contain the node exactly once.
ParentIntegrity ==
    /\ nodes[Root].parent = Nil
    /\ \A n \in Namespace(nodes) \ {Root} :
          /\ nodes[n].parent # Nil
          /\ Cardinality({i \in 1..Len(ChildList(nodes, nodes[n].parent)) :
                            ChildList(nodes, nodes[n].parent)[i] = n}) = 1

\* C17 witness: a node has been deleted, and the namespace has a directory
\* with a file in it.
ParentIntegrityWitness ==
    /\ Quiet
    /\ Len(nodes) > Cardinality(Namespace(nodes))
    /\ \E f \in Files(nodes) :
          /\ nodes[f].parent # Root
          /\ nodes[nodes[f].parent].parent = Root

\* the paths of the nodes of the namespace
NodePaths(ns) == {GetPath(ns, n) : n \in Namespace(ns)}

\* the step is the whole handler of goroutine p for a request op on a path of
\* the namespace other than "/": no other goroutine moves, and p goes from
\* free to its answer
AnswersExisting(p, op) ==
    /\ Free(p)
    /\ \A q \in Procs \ {p} : h'[q] = h[q]
    /\ h'[p].pc = "done"
    /\ h'[p].op = op
    /\ h'[p].pth # <<>>
    /\ h'[p].pth \in NodePaths(nodes)

\* the request is answered success:false and has changed neither the
\* namespace nor any storage server's files
Refused(p) == h'[p].resp = "false" /\ nodes' = nodes /\ stored' = stored

\* C18 as stated: a /create_directory or /create_file for a path that exists,
\* as a directory or as a file, is answered success:false without an error
\* and changes neither the namespace nor a storage server.
CreateExistingFalse ==
    [][\A p \in Procs :
         (AnswersExisting(p, "create_directory") \/ AnswersExisting(p, "create_file"))
            => Refused(p)]_vars

\* C18 amended: /create_directory for an existing path is refused that way,
\* and /create_file too when a storage server is registered; with no storage
\* server /create_file answers IllegalStateException, whatever the path, and
\* changes nothing.
CreateExistingRefused ==
    [][\A p \in Procs :
         /\ AnswersExisting(p, "create_directory") => Refused(p)
         /\ AnswersExisting(p, "create_file")
               => IF storageServers # <<>> THEN Refused(p)
                  ELSE /\ h'[p].resp = "IllegalStateException"
                       /\ nodes' = nodes
                       /\ stored' = stored]_vars

\* C18 witness: a /create_file for the path of an existing file has been
\* answered success:false.
CreateExistingWitness ==
    \E p \in Procs :
        /\ h[p].pc = "done"
        /\ h[p].op = "create_file"
        /\ h[p].resp = "false"
        /\ \E f \in Files(nodes) : GetPath(nodes, f) = h[p].pth

\* the pcs of registerStorageHandler before its duplicate check
RegisterCheckPcs == {"rg_begin", "rg_swait"}

\* C19: a /register whose two ports are those of a registered server is
\* answered IllegalStateException (409) and changes neither the registry nor
\* the namespace; any other /register, one that shares one port with a
\* registered server included, is accepted and appended to the registry.
\* (The servers of the model differ in at least one port, so both ports are
\* equal exactly for the same server.)
RegisterDuplicateRejected ==
    [][\A p \in Procs :
         (h[p].pc \in RegisterCheckPcs /\ h'[p].pc \notin RegisterCheckPcs)
            => IF h[p].server \in Range(storageServers)
               THEN /\ h'[p].pc = "done"
                    /\ h'[p].resp = "IllegalStateException"
                    /\ storageServers' = storageServers
                    /\ nodes' = nodes
               ELSE /\ h'[p].pc = "rg_lock"
                    /\ storageServers' = Append(storageServers, h[p].server)]_vars

\* C19 witness: server 2, which has the client port of server 1, was accepted
\* after server 1, and a second registration of a registered server has been
\* answered 409.
RegisterDuplicateWitness ==
    /\ storageServers = <<1, 2>>
    /\ clientPort(1) = clientPort(2)
    /\ \E p \in Procs :
          /\ h[p].pc = "done"
          /\ h[p].op = "register"
          /\ h[p].resp = "IllegalStateException"

\* the paths of the directories and of the files of the namespace
DirPaths(ns) == {GetPath(ns, n) : n \in Namespace(ns) \ Files(ns)}

FilePaths(ns) == {GetPath(ns, n) : n \in Files(ns)}

\* the paths above pth, from "/" to its parent
Above(pth) == {SubSeq(pth, 1, k) : k \in 0..(Len(pth) - 1)}

\* what C20 says of /register, on sets of paths: an entry is merged when it is
\* "/" or when its path does not exist and no path above it is a file; a
\* merged entry other than "/" becomes a file and the missing paths above it
\* directories; the other entries are rejected, in input order
RECURSIVE RegisterResult(_, _, _)
RegisterResult(dirs, files, pths) ==
    IF pths = <<>> THEN [dirs |-> dirs, files |-> files, rejected |-> <<>>]
    ELSE LET pth == Head(pths)
             merged == \/ pth = <<>>
                       \/ /\ pth \notin dirs \cup files
                          /\ Above(pth) \cap files = {}
             rest == IF merged /\ pth # <<>>
                     THEN RegisterResult(dirs \cup Above(pth), files \cup {pth}, Tail(pths))
                     ELSE RegisterResult(dirs, files, Tail(pths))
         IN  [rest EXCEPT !.rejected = IF merged THEN @ ELSE <<pth>> \o @]

\* C20: an accepted /register(server, files) answers with the entries that
\* were not merged, in input order; after it the namespace is the one before
\* plus the merged entries as files with the replica list <<server>> and the
\* missing directories above them, and the replica list of every file that
\* existed before is unchanged.
RegisterResponse ==
    [][\A p \in Procs :
         (h[p].pc = "rg_merge" /\ h'[p].pc = "done")
            => LET r == RegisterResult(DirPaths(nodes), FilePaths(nodes), h[p].out) IN
               /\ h'[p].resp = "ok"
               /\ h'[p].out = r.rejected
               /\ DirPaths(nodes') = r.dirs
               /\ FilePaths(nodes') = r.files
               /\ \A f \in Files(nodes') \ Files(nodes) :
                     /\ nodes'[f].storageServers = <<h[p].server>>
                     /\ nodes'[f].path = GetPath(nodes', f)
               /\ \A f \in Files(nodes) :
                     /\ f \in Files(nodes')
                     /\ nodes'[f].storageServers = nodes[f].storageServers]_vars

\* C20 witness: a /register with the files "/d/f" and "/d" has been answered
\* with "/d" alone; "/d/f" is a file and "/d" a directory.
RegisterResponseWitness ==
    \E p \in Procs :
        /\ h[p].pc = "done"
        /\ h[p].op = "register"
        /\ h[p].resp = "ok"
        /\ h[p].out = <<<<"d">>>>
        /\ <<"d", "f">> \in FilePaths(nodes)
        /\ <<"d">> \in DirPaths(nodes)

\* the files of the subtree of node n, n included, detached or not
SubtreeFiles(ns, n) == {f \in ReachableFrom(ns, {n}) : ns[f].kind = "file"}

\* C21: when deleteHandler has sent its delete commands for the node it
\* removed, every server in the replica list of every file of the removed
\* subtree has been sent a command, and the path of the commands is the path
\* of the file or of a directory above it; and /delete answers success only
\* after it has sent them.
DeleteReachesReplicas ==
    [][\A p \in Procs :
         /\ (h[p].pc # "dl_wait" /\ h'[p].pc = "dl_wait")
               => \A f \in SubtreeFiles(nodes', h'[p].item) :
                     /\ Range(nodes'[f].storageServers) \subseteq h'[p].pending
                     /\ IsPrefix(h'[p].pth, nodes'[f].path)
         /\ (h[p].pc # "done" /\ h'[p].pc = "done" /\ h'[p].op = "delete"
                /\ h'[p].resp = "true")
               => h[p].pc = "dl_wait"]_vars

\* C21 witness: /delete has removed a file with two replicas and a delete
\* command to each of them is under way.
DeleteReachesReplicasWitness ==
    \E p \in Procs :
        /\ h[p].pc = "dl_wait"
        /\ nodes[h[p].item].kind = "file"
        /\ Len(nodes[h[p].item].storageServers) = 2
        /\ h[p].pending = {1, 2}

\* C22: an /is_valid_path that directly follows a successful /delete of d
\* answers false for d and for every path below d (a deleted file is the case
\* of a path with nothing below it): DeletePath detached the whole subtree in
\* its one step.
DeletedIsInvalid ==
    [][\A p \in Procs :
         (/\ h[p].pc = "done" /\ h[p].op = "delete" /\ h[p].resp = "true"
          /\ h'[p].pc = "done" /\ h'[p].op = "is_valid_path"
          /\ IsPrefix(h[p].pth, h'[p].pth))
            => h'[p].resp = "false"]_vars

\* C22 witness: /is_valid_path has answered false for /d/f, a file that was
\* created below /d and went away with it: its node is still there, detached,
\* below a detached directory.
DeletedIsInvalidWitness ==
    \E p \in Procs, f \in DOMAIN nodes :
        /\ h[p].pc = "done" /\ h[p].op = "is_valid_path"
        /\ h[p].pth = <<"d", "f">> /\ h[p].resp = "false"
        /\ nodes[f].kind = "file" /\ nodes[f].path = <<"d", "f">>
        /\ f \notin Namespace(nodes)
        /\ nodes[f].parent \notin Namespace(nodes)
        /\ f \in Range(nodes[nodes[f].parent].subFiles)

\* the step is the whole handler of goroutine p for a request op on path pth:
\* no other goroutine moves, and p goes from free to its answer
Answers(p, op, pth) ==
    /\ Free(p)
    /\ \A q \in Procs \ {p} : h'[q] = h[q]
    /\ h'[p].pc = "done"
    /\ h'[p].op = op
    /\ h'[p].pth = pth

\* the request is answered with the error err and has changed neither the
\* namespace nor any storage server's files
Fails(p, err) == h'[p].resp = err /\ nodes' = nodes /\ stored' = stored

\* C23 as stated: /create_file, /create_directory and /delete on "/" are
\* answered success:false without an error in every state, the state with no
\* registered storage server included, and change neither the namespace nor a
\* storage server.
RootRefusedAlways ==
    [][\A p \in Procs :
         (\/ Answers(p, "create_file", <<>>)
          \/ Answers(p, "create_directory", <<>>)
          \/ Answers(p, "delete", <<>>)) => Refused(p)]_vars

\* C23 amended: /create_directory and /delete on "/" are refused that way in
\* every state, in one step of the handler (no delete command is waited for),
\* and /create_file on "/" too when a storage server is registered; with no
\* storage server /create_file("/") answers IllegalStateException and changes
\* nothing.
RootRefused ==
    [][\A p \in Procs :
         /\ h'[p].pc \in {"done", "dl_rlock", "dl_wait"} /\ h'[p].op = "delete"
             /\ h'[p].pth = <<>> => Answers(p, "delete", <<>>)
         /\ Answers(p, "create_directory", <<>>) => Refused(p)
         /\ Answers(p, "delete", <<>>) => Refused(p)
         /\ Answers(p, "create_file", <<>>)
               => IF storageServers # <<>> THEN Refused(p)
                  ELSE Fails(p, "IllegalStateException")]_vars

\* C23 witness: with a storage server registered and a file in the namespace,
\* a /create_file("/") has been answered success:false.
RootRefusedWitness ==
    \E p \in Procs :
        /\ h[p].pc = "done" /\ h[p].op = "create_file"
        /\ h[p].pth = <<>> /\ h[p].resp = "false"
        /\ storageServers # <<>>
        /\ Files(nodes) # {}

\* the parent of pth does not exist as a directory: a path above pth is
\* missing or is a file
ParentMissing(pth) == pth # <<>> /\ Front(pth) \notin DirPaths(nodes)

\* C24 as stated: /create_file and /create_directory on a path whose parent
\* does not exist as a directory fail with FileNotFound and change neither
\* the namespace nor a storage server.
CreateOrphanNotFound ==
    [][\A p \in Procs :
         (/\ \/ Answers(p, "create_file", h'[p].pth)
             \/ Answers(p, "create_directory", h'[p].pth)
          /\ ParentMissing(h'[p].pth))
            => Fails(p, "FileNotFoundException")]_vars

\* C24 amended: /create_directory on such a path fails that way, and
\* /create_file too when a storage server is registered; with no storage
\* server /create_file answers IllegalStateException and changes nothing.
CreateOrphanFails ==
    [][\A p \in Procs :
         /\ (Answers(p, "create_directory", h'[p].pth) /\ ParentMissing(h'[p].pth))
               => Fails(p, "FileNotFoundException")
         /\ (Answers(p, "create_file", h'[p].pth) /\ ParentMissing(h'[p].pth))
               => IF storageServers # <<>> THEN Fails(p, "FileNotFoundException")
                  ELSE Fails(p, "IllegalStateException")]_vars

\* C24 witness: /create_file(/d/f) has failed with FileNotFound where /d is a
\* file, with a storage server registered.
CreateOrphanWitness ==
    \E p \in Procs :
        /\ h[p].pc = "done" /\ h[p].op = "create_file"
        /\ h[p].pth = <<"d", "f">> /\ h[p].resp = "FileNotFoundException"
        /\ <<"d">> \in FilePaths(nodes)
        /\ storageServers # <<>>

\* C25: no request on a destroyed FIFORWMutex blocks forever: a goroutine
\* that is inside RLock() or Lock() of a mutex whose scheduler has received
\* quit, whether it called after Destroy() or was queued before it, comes
\* out of the call.
DestroyedRequestsReturn ==
    \A c \in Clients :
        (~mu.alive /\ mst[c] \in MWaiting) ~> (mst[c] \notin MWaiting)

\* the step added one node to the heap, a file of path pth that is in the
\* namespace, and changed nothing else of the namespace's paths
AddsFile(pth) ==
    /\ Len(nodes') = Len(nodes) + 1
    /\ nodes'[Len(nodes')].kind = "file"
    /\ nodes'[Len(nodes')].path = pth
    /\ Len(nodes') \in Namespace(nodes')
    /\ FilePaths(nodes') = FilePaths(nodes) \cup {pth}
    /\ pth \notin FilePaths(nodes)

\* C26: /create_file answers success:true exactly when the request added a
\* new file node; when it added none it leaves the namespace and the storage
\* servers alone (no command), and when it added one a create command went
\* to the file's first replica and to no other server: the disks are those
\* after the command succeeded there or those after a failed command, and
\* the answer and the new node are the same in both cases.
CreateFileReports ==
    [][\A p \in Procs :
         Answers(p, "create_file", h'[p].pth) =>
            /\ h'[p].resp = "true" <=> AddsFile(h'[p].pth)
            /\ h'[p].resp # "true" => nodes' = nodes /\ stored' = stored
            /\ h'[p].resp = "true" =>
                  /\ nodes'[Len(nodes')].storageServers # <<>>
                  /\ nodes'[Len(nodes')].storageServers[1] \in Range(storageServers)
                  /\ stored' \in
                        {StoreFailed,
                         StorePut(stored, nodes'[Len(nodes')].storageServers[1],
                                  {h'[p].pth})}]_vars

\* C26 witness: /create_file(/f) was answered success:true and /f is in the
\* namespace although its create command failed: /d and /d/f came from the
\* one registration, nothing was ever deleted, so the create command of /f
\* is the only storage command that was ever sent.
CreateFileReportsWitness ==
    \E p \in Procs :
        /\ h[p].pc = "done" /\ h[p].op = "create_file"
        /\ h[p].pth = <<"f">> /\ h[p].resp = "true"
        /\ Len(storageServers) = 1
        /\ Len(nodes) = 4 /\ Namespace(nodes) = DOMAIN nodes
        /\ nodes[2].kind = "dir"
        /\ nodes[3].kind = "file" /\ nodes[3].parent = 2
        /\ nodes[4].kind = "file" /\ nodes[4].path = <<"f">>
        /\ ~stored.ok

\* the number of requests at the head of queue q that are readers
LeadingReaders(q) ==
    CHOOSE k \in 0..Len(q) :
        /\ \A i \in 1..k : q[i].readonly
        /\ k = Len(q) \/ ~q[k + 1].readonly

\* the goroutines that the step lets out of RLock() or Lock()
MAdmitted == {c \in Clients : mst[c] \in MWaiting /\ mst'[c] \in MHolding}

\* C27: when a release (the Unlock of the writer, or the RUnlock of the last
\* reader) frees a mutex whose queue is not empty: if the head is a writer,
\* it alone is admitted, as the writer; if the head is a reader, it and the
\* readers queued consecutively behind it are all admitted in that step, as
\* readers; the rest of the queue, from the first writer on, stays queued in
\* its order.
MutexReleaseAdmits ==
    [][\A c \in Clients :
         (/\ mst[c] \in MHolding /\ mst'[c] = "idle"
          /\ mst[c] = "holdR" => mu.nReading = 1
          /\ mu.queue # <<>>)
            => LET q == mu.queue
                   k == LeadingReaders(q)
               IN  IF ~q[1].readonly
                   THEN /\ MAdmitted = {q[1].who}
                        /\ mst'[q[1].who] = "holdW"
                        /\ mu'.writing /\ mu'.nReading = 0
                        /\ mu'.queue = Tail(q)
                   ELSE /\ MAdmitted = {q[i].who : i \in 1..k}
                        /\ \A a \in MAdmitted : mst'[a] = "holdR"
                        /\ ~mu'.writing /\ mu'.nReading = k
                        /\ mu'.queue = SubSeq(q, k + 1, Len(q))]_vars

\* C27 witness: the release of a writer has just admitted the two readers
\* that were queued behind it, together.
MutexReleaseAdmitsWitness ==
    /\ Len(mlast) = 2
    /\ \A i \in 1..2 : mst[mlast[i]] = "holdR"
    /\ mu.nReading = 2
    /\ mu.queue = <<>>

\* node n and the directories above it, up to the root
RECURSIVE UpToRoot(_, _)
UpToRoot(ns, n) == IF n = Nil THEN {} ELSE {n} \cup UpToRoot(ns, ns[n].parent)

\* the node a path names
NodeAt(ns, pth) ==
    IF pth = <<>> THEN Root
    ELSE LET parent == walkPath(ns, Front(pathToNames(pth))) IN
         IF parent = Nil THEN Nil ELSE FindItem(ns, parent, Last(pth))

\* the pcs of lockHandler between the grant of the target's lock and the
\* answer, and those among them that come after the write of the lock table
LockTargetHeldPcs == {"lk_table", "lk_repl", "lk_cand", "lk_copy", "lk_copied", "lk_wait"}

LockTabledPcs == LockTargetHeldPcs \ {"lk_table"}

\* the node whose lock request p locked or is unlocking as its target, Nil
\* when p holds no target: a granted /lock that was not unlocked yet, a
\* lockHandler past the grant of the target, an unlockHandler before its
\* first release
TargetHeld(p) ==
    IF Holding(p) \/ h[p].pc = "ul_begin" THEN NodeAt(nodes, h[p].pth)
    ELSE IF h[p].pc \in LockTargetHeldPcs \cup {"ul_target"} THEN h[p].item
    ELSE Nil

\* the nodes whose read lock request p has been granted and has not released,
\* by the place of p in its handler: the directories above the one it asks
\* next, the directories it still has to release on its way up, or the
\* directories above its target, and the target of a shared lock
ReadHeld(p) ==
    LET hr == h[p]
        t == TargetHeld(p)
    IN  IF hr.pc \in {"lk_rlock", "lk_rwait"}
        THEN UpToRoot(nodes, nodes[hr.curr].parent)
        ELSE IF hr.pc \in {"lk_unwind", "ul_unwind"} THEN UpToRoot(nodes, hr.curr)
        ELSE IF hr.pc \in {"lk_tlock", "lk_twait"}
        THEN UpToRoot(nodes, nodes[hr.item].parent)
        ELSE IF t # Nil
        THEN UpToRoot(nodes, nodes[t].parent) \cup (IF hr.readonly THEN {t} ELSE {})
        ELSE {}

\* the nodes whose write lock p has been granted and has not released: the
\* target of an exclusive lock, the root during RegisterFiles
WriteHeld(p) ==
    IF h[p].pc = "rg_merge" THEN {Root}
    ELSE IF TargetHeld(p) # Nil /\ ~h[p].readonly THEN {TargetHeld(p)}
    ELSE {}

\* the requests that count in the lock table of their mode for path pth
Tabled(pth, readonly) ==
    {p \in Procs : /\ h[p].pth = pth /\ h[p].readonly = readonly
                   /\ Holding(p) \/ h[p].pc \in LockTabledPcs \cup {"ul_begin"}}

\* C28: a /lock that was answered FileNotFound has released every lock it
\* acquired and left the lock tables alone: in every state the reader count
\* and the writer flag of every node are those of the requests that were
\* granted and not unlocked and of the handlers in progress, and so are the
\* entries and counts of both lock tables; an answered request that failed
\* with FileNotFound counts for nothing in any of them.
LockFailureLeavesNothing ==
    /\ \A n \in DOMAIN nodes :
          /\ lock[n].nReading = Cardinality({p \in Procs : n \in ReadHeld(p)})
          /\ lock[n].writing <=> \E p \in Procs : n \in WriteHeld(p)
    /\ \A pth \in ReqPaths :
          /\ pth \in DOMAIN rLockedItems <=> Tabled(pth, TRUE) # {}
          /\ pth \in DOMAIN rLockedItems
                => rLockedItems[pth].count = Cardinality(Tabled(pth, TRUE))
          /\ pth \in DOMAIN wLockedItems <=> Tabled(pth, FALSE) # {}
    /\ \A p \in Procs :
          (h[p].pc = "done" /\ h[p].resp = "FileNotFoundException")
             => ReadHeld(p) = {} /\ WriteHeld(p) = {}

\* C28 witness: a /lock was answered FileNotFound after it had taken the read
\* lock of the root, and the root's reader count is that of the other client,
\* who holds the root shared.
LockFailureWitness ==
    \E p, q \in Procs :
        /\ p # q
        /\ h[p].pc = "done" /\ h[p].op = "lock"
        /\ h[p].resp = "FileNotFoundException"
        /\ Holding(q) /\ h[q].pth = <<>> /\ h[q].readonly
        /\ lock[Root].nReading = 1

\* the nodes whose lock p has been granted and has not released
Held(p) == ReadHeld(p) \cup WriteHeld(p)

ProperAncestors(ns, n) == UpToRoot(ns, ns[n].parent)

\* p is not waiting in the queue of node n's mutex
NotQueuedAt(p, n) == \A i \in 1..Len(lock[n].queue) : lock[n].queue[i].who # p

\* C30: when a /lock was answered success, the caller holds a shared lock on
\* every directory strictly above the target, for an exclusive request too,
\* and the target in the requested mode: those directories have a reader and
\* no writer, the target has a reader and no writer (shared) or its writer
\* and no reader (exclusive). And the locks were requested from the root
\* down: when the handler sends its request for a node, the locks of all
\* directories above that node were granted to it already, the parent's
\* last, and it waits in no queue.
LockGrantedRootToLeaf ==
    [][\A p \in Procs :
         /\ Holding(p)' =>
               LET t == NodeAt(nodes', h'[p].pth) IN
               /\ \A a \in ProperAncestors(nodes', t) :
                     /\ a \in ReadHeld(p)' /\ a \notin WriteHeld(p)'
                     /\ lock'[a].nReading >= 1 /\ ~lock'[a].writing
               /\ IF h'[p].readonly
                  THEN /\ t \in ReadHeld(p)'
                       /\ lock'[t].nReading >= 1 /\ ~lock'[t].writing
                  ELSE /\ t \in WriteHeld(p)' /\ t \notin ReadHeld(p)'
                       /\ lock'[t].writing /\ lock'[t].nReading = 0
         /\ (h[p].pc \in {"lk_rlock", "lk_tlock"} /\ h'[p] # h[p]) =>
               LET n == IF h[p].pc = "lk_rlock" THEN h[p].curr ELSE h[p].item IN
               /\ ReadHeld(p) = ProperAncestors(nodes, n)
               /\ h[p].pc = "lk_rlock"
                     => n = NodeAt(nodes, SubSeq(h[p].pth, 1, h[p].j))
               /\ h[p].pc = "lk_tlock" => n = NodeAt(nodes, h[p].pth)
               /\ \A a \in ProperAncestors(nodes, n) :
                     /\ lock[a].nReading >= 1 /\ ~lock[a].writing
                     /\ NotQueuedAt(p, a)
               /\ \A m \in DOMAIN nodes : m # n => lock'[m] = lock[m]]_vars

\* C30 witness: an exclusive /lock on /d/f was answered success: the file has
\* its writer, /d and the root have one reader each.
LockGrantedWitness ==
    \E p \in Procs :
        /\ Holding(p) /\ h[p].pth = <<"d", "f">> /\ ~h[p].readonly
        /\ lock[NodeAt(nodes, <<"d", "f">>)].writing
        /\ lock[NodeAt(nodes, <<"d">>)].nReading = 1
        /\ lock[Root].nReading = 1

\* the namespace RegisterFiles has built when it comes to entry i of pths
BeforeEntry(ns, pths, i, storageServer) ==
    RegisterFiles(ns, SubSeq(pths, 1, i - 1), storageServer).nodes

\* C31: in the loop of RegisterFiles, the entry "/" is accepted and adds
\* nothing; an entry other than "/" is rejected when a path above it is a
\* file or when its own path exists already, as a file or as a directory; and
\* a rejected entry leaves the namespace exactly as it found it, without any
\* directory created on its behalf. "/" is never among the rejected entries
\* of the response.
RegisterEntryFrame ==
    [][\A p \in Procs :
         (h[p].pc = "rg_merge" /\ h'[p].pc = "done") =>
            /\ <<>> \notin Range(h'[p].out)
            /\ nodes' = BeforeEntry(nodes, h[p].out, Len(h[p].out) + 1, h[p].server)
            /\ \A i \in 1..Len(h[p].out) :
                  LET pth == h[p].out[i]
                      before == BeforeEntry(nodes, h[p].out, i, h[p].server)
                      one == RegisterOne(before, pth, h[p].server)
                  IN  /\ pth = <<>> => one.ok /\ one.nodes = before
                      /\ (/\ pth # <<>>
                          /\ \/ Above(pth) \cap FilePaths(before) # {}
                             \/ pth \in NodePaths(before)) => ~one.ok
                      /\ ~one.ok => one.nodes = before /\ pth \in Range(h'[p].out)]_vars

\* C31 witness: a registration of /d and /d/f was answered: /d is a file and
\* /d/f, which would need /d as a directory, came back rejected.
RegisterEntryFrameWitness ==
    \E p \in Procs :
        /\ h[p].pc = "done" /\ h[p].op = "register" /\ h[p].resp = "ok"
        /\ h[p].out = <<<<"d", "f">>>>
        /\ <<"d">> \in FilePaths(nodes)
        /\ DirPaths(nodes) = {<<>>}

\* C32: PathExists is never run while RegisterFiles holds the root's lock
\* exclusively, and so never sees a namespace in which only a part of one
\* registration's list is merged: no /is_valid_path is answered while a
\* /register handler is inside RegisterFiles.
QueryExcludesRegister ==
    [][\A q \in Procs :
         (h'[q].pc = "done" /\ h'[q].op = "is_valid_path" /\ h'[q] # h[q])
            => /\ ~lock[Root].writing
               /\ \A p \in Procs : h[p].pc # "rg_merge"]_vars

\* C33: with /register running beside /lock and /unlock, no state is
\* reachable in which a /register handler that holds the registry lock waits
\* for the root's lock while a /lock handler that holds the root's lock shared
\* waits for the registry lock.
NoRegistryRootCycle ==
    \A p, q \in Procs :
        ~ /\ h[p].pc = "rg_wait"
          /\ sLock.writer = p
          /\ h[q].pc = "lk_cand"
          /\ Root \in ReadHeld(q)
          /\ lock[Root].nReading > 0

\* C34: a client that holds a shared lock on one path and requests a shared
\* lock on a second path is eventually granted it, when every other client
\* releases the locks it is granted.
SecondLockGranted == (nops = 3) ~> (nops = 3 /\ Holding(Reader))

\* C35: for every file, whenever no /lock handler holds the file's rCountMtx,
\* 0 <= rCount <= 19: the read counter is never negative and never stays at or
\* above the threshold.
ReadCountInRange ==
    \A n \in 1..Len(nodes) :
        (nodes[n].kind = "file" /\ rCountMtx[n] = Nil)
            => /\ 0 <= nodes[n].rCount
               /\ nodes[n].rCount <= ReplicationThreshold - 1

\* a shared /lock crossed the threshold, found no candidate or a copy that
\* failed, and has returned: the file has one replica and its counter is back
\* at 0 with rCountMtx free
ReadCountWitness ==
    \E n \in 1..Len(nodes), p \in Procs :
        /\ nodes[n].kind = "file" /\ rCountMtx[n] = Nil
        /\ nodes[n].rCount = 0
        /\ reads[n] = ReplicationThreshold
        /\ Len(nodes[n].storageServers) = 1
        /\ Holding(p) /\ h[p].readonly /\ h[p].pth = ReplFile

\* C36: in every state a file's replica list names no server twice and only
\* registered servers, so it is never longer than the list of registered
\* storage servers.
ReplicasDistinctRegistered ==
    \A n \in 1..Len(nodes) :
        nodes[n].kind = "file" =>
            LET replicas == nodes[n].storageServers IN
            /\ \A i, k \in 1..Len(replicas) : replicas[i] = replicas[k] => i = k
            /\ Range(replicas) \subseteq Range(storageServers)
            /\ Len(replicas) <= Len(storageServers)

\* two shared /lock calls on one file at once: a copy has added a replica, one
\* call has returned, the other is at rCountMtx.Lock(), and every registered
\* server is a replica
ReplicasDistinctWitness ==
    \E n \in 1..Len(nodes), p, q \in Procs :
        /\ nodes[n].kind = "file"
        /\ Len(nodes[n].storageServers) = Len(storageServers)
        /\ Len(storageServers) > 1
        /\ copied[n] # {}
        /\ Holding(p) /\ h[p].readonly /\ h[p].pth = ReplFile
        /\ h[q].pc = "lk_repl" /\ h[q].readonly /\ h[q].item = n

\* C37: when DeletePath destroys the lock of the node it removes while the
\* deleting client holds the parent directory's lock exclusively, that lock has
\* no holder and no queued waiter at the moment of Destroy.
DestroyFindsLockFree ==
    [][\A p \in Procs :
         (/\ Holding(p) /\ ~h[p].readonly
          /\ h'[p].op = "delete" /\ h'[p].pth # <<>>
          /\ h[p].pth = Front(h'[p].pth))
            => \A n \in 1..Len(nodes) :
                 (lock[n].alive /\ ~lock'[n].alive)
                    => /\ lock[n].nReading = 0
                       /\ ~lock[n].writing
                       /\ lock[n].queue = NewQueue]_vars

\* the holder of the exclusive lock of "/d" has deleted "/d/f" while another
\* client's /lock of "/d/f" waits for the read lock of "/d"
DestroyFindsLockFreeWitness ==
    \E p, q \in Procs :
        /\ h[p].op = "delete" /\ h[p].pth = ReplFile
        /\ ReplDir \in DOMAIN wLockedItems
        /\ \E n \in 1..Len(lock) : ~lock[n].alive
        /\ h[q].pc = "lk_rwait" /\ h[q].pth = ReplFile

\* the holder of the mutex of the lock table request p works on
TableMutexOf(p) == IF h[p].readonly THEN rLockedItemsMtx ELSE wLockedItemsMtx

\* C38: a /unlock for a path that is in the lock table of the requested mode
\* never blocks while it holds the table's mutex: the lock it is about to
\* release, the target's or a directory's above it, is served by its scheduler.
UnlockNeverBlocks ==
    \A p \in Procs :
        /\ h[p].pc = "ul_target"
            => (lock[h[p].item].alive /\ TableMutexOf(p) = p)
        /\ (h[p].pc = "ul_unwind" /\ h[p].op = "unlock")
            => (lock[h[p].curr].alive /\ TableMutexOf(p) = p)

\* the names of the children of directory n, sub-directories then files
ChildNames(n) ==
    [i \in 1..Len(nodes[n].subDirectories) |-> nodes[nodes[n].subDirectories[i]].name]
    \o [i \in 1..Len(nodes[n].subFiles) |-> nodes[nodes[n].subFiles[i]].name]

\* C39: two /create_file or /create_directory requests for the same path that
\* run concurrently do not both answer success:true, and no directory gets two
\* children of the same name.
CreateOnce ==
    /\ \A p, q \in Procs :
          (/\ p # q
           /\ h[p].pc = "done" /\ h[p].op \in {"create_directory", "create_file"}
           /\ h[q].pc = "done" /\ h[q].op \in {"create_directory", "create_file"}
           /\ h[p].pth = h[q].pth)
            => ~(h[p].resp = "true" /\ h[q].resp = "true")
    /\ \A n \in 1..Len(nodes) :
          \A i, k \in 1..Len(ChildNames(n)) :
              ChildNames(n)[i] = ChildNames(n)[k] => i = k

\* C40: between two events of the scheduler a non-empty queue implies that the
\* lock is held, by a writer or by readers, and when readers hold it the head
\* of the queue is a write request; so the request the rUnlock branch takes
\* from the queue when the last reader releases is a write request.
SchedulerQueueHead ==
    /\ ~Empty(mu.queue) => (mu.writing \/ mu.nReading > 0)
    /\ (mu.nReading > 0 /\ ~Empty(mu.queue)) => ~Peek(mu.queue).readonly

\* readers hold the lock, a writer is at the head of the queue and a reader
\* waits behind it
SchedulerQueueHeadWitness ==
    /\ mu.nReading > 0
    /\ Len(mu.queue) > 1
    /\ ~Peek(mu.queue).readonly
    /\ \E i \in 2..Len(mu.queue) : mu.queue[i].readonly

====
